---- MODULE Spec2Model ----
(***************************************************************************)
(* HTRevitTools: a model of the push-button scripts that change the host   *)
(* document.  One script runs per behaviour (script); its position is pc.  *)
(* The host keeps the open transaction (txn); every script's dialogs and   *)
(* document changes are recorded in shown/chosen and committed/outside.    *)
(***************************************************************************)
EXTENDS Integers, Sequences, FiniteSets, TLC

VARIABLES
    script,     \* the script whose button was pressed
    pc,         \* position of the run in the script
    txn,        \* name of the open host transaction, or "none"
    modified,   \* the open transaction has changed the document
    committed,  \* names of the committed transactions that changed the document
    outside,    \* API calls that changed the document with no transaction open
    shown,      \* asking dialogs and pick prompts of this run the user has closed
    chosen,     \* those of them the user answered with a choice
    notices     \* alerts of this run that only inform (one OK button)

hostVars == <<script, pc, txn, modified, committed, outside, shown, chosen, notices>>

\* the application and the document settings the scripts read
VARIABLES
    ver,                     \* int(app.VersionNumber)
    IsWorkshared,            \* doc.IsWorkshared
    CanEnableWorksharing     \* doc.CanEnableWorksharing

appVars == <<ver, IsWorkshared, CanEnableWorksharing>>

\* the version of a script that does not read it
NoVersion == 0

\* ------------------------------------------------------------------------
\* Identical Instances
VARIABLES
    selected_option,         \* answer of DeleteBetweenOptionSets.show
    elements,                \* the document's elements: id -> attributes
    classes,                 \* the elements the warnings iterated so far chain together
    n_warnings,              \* number of warnings iterated so far
    checked_element_ids,
    grouped_warnings_ids,
    warning_number,          \* index of the next list of the deletion loop
    elements_ids_to_delete,
    DELETED                  \* elements doc.Delete removed

iiVars == <<selected_option, elements, classes, n_warnings, checked_element_ids,
            grouped_warnings_ids, warning_number, elements_ids_to_delete, DELETED>>

\* ------------------------------------------------------------------------
\* CAD Worksets
VARIABLES
    user_worksets,           \* names of the user worksets of the document
    cad_instances,           \* ImportInstance id -> [name, workset]
    cad_types,               \* CAD type (import symbol) name -> workset of the type
    incorrect_workset_cad,   \* the entries of the selection list
    selected_options         \* the entries the user ticked

cadVars == <<user_worksets, cad_instances,
             cad_types, incorrect_workset_cad, selected_options>>

\* ------------------------------------------------------------------------
\* Delete Views
VARIABLES
    views,                   \* view id -> [kind, template, parent]
    selected_elements,       \* revit.get_selection(), as element ids
    views_to_delete,         \* list of View objects
    deleted_views,           \* ids of the views doc.Delete removed
    templates_unused,        \* templates offered for deletion
    deleted_templates        \* templates doc.Delete removed

dvVars == <<views, selected_elements, views_to_delete, deleted_views,
            templates_unused, deleted_templates>>

\* ------------------------------------------------------------------------
\* Delete Sheets
VARIABLES
    schedule_sheets,         \* schedule -> the sheets it has an instance on
    legend_sheets,           \* legend -> the sheets it has a viewport on
    view_sheet,              \* the sheet of the plan view, NoSheet if none
    view_has_dependents,     \* the plan view has dependent views
    selected_sheets,         \* the sheets of revit.get_selection()
    sheet_views_to_delete,   \* views_to_delete of Delete Sheets
    schedules_to_delete,
    legends_to_delete,
    toggled_switches,        \* the switches the user turned on
    deleted_elements         \* what doc.Delete removed, with what fell with it

dsVars == <<schedule_sheets, legend_sheets, view_sheet, view_has_dependents,
            selected_sheets, sheet_views_to_delete, schedules_to_delete,
            legends_to_delete, toggled_switches, deleted_elements>>

\* ------------------------------------------------------------------------
\* RVT Link Worksets
VARIABLES
    doc_title,               \* doc.Title, in parts
    worksets,                \* names of the user worksets of the document
    not_editable,            \* names of the worksets with IsEditable false
    revit_links,             \* sorted link instances, each [file, workset]
    link_types,              \* linked file -> workset of its link type
    dict_order,              \* the order in which the dictionaries list names
    enable_worksharing,
    revit_links_selected,    \* indices of the links ticked in the list
    add_originator,
    add_zone,
    workset_dict,            \* names of the worksets found before the loop
    new_workset_dict,        \* names of the worksets created in the loop
    current,                 \* index of the link the loop is at
    workset_name,            \* the name computed for that link
    Ws,                      \* the existing workset used for that link
    link_target,             \* link index -> workset created or used for it
    errors,                  \* an except branch printed an error
    unused_workset_names,    \* the list of line 377, before it is joined
    delete_worksets,
    deleted_worksets

rvtDoc == <<worksets, not_editable, revit_links, link_types>>
rvtInputs == <<doc_title, dict_order, enable_worksharing, revit_links_selected,
               add_originator, add_zone, workset_dict>>
rvtLoop == <<new_workset_dict, current, workset_name, Ws, link_target, errors>>
rvtEnd == <<unused_workset_names, delete_worksets, deleted_worksets>>
rvtVars == <<rvtDoc, rvtInputs, rvtLoop, rvtEnd>>

\* ------------------------------------------------------------------------
\* the other scripts that open a transaction
VARIABLES
    collected,               \* the elements the script collects or lists
    picked,                  \* the elements the user selected among them
    changed                  \* the elements the transaction changed

simpleVars == <<collected, picked, changed>>

\* ------------------------------------------------------------------------
\* Workset Views (script.py)
VARIABLES
    worksets_collection,     \* names of the user worksets
    views3D,                 \* names of the 3D views that are not templates
    refused_names,           \* names the host refuses to give to a new view
    worksetsDict,            \* names of the worksets without a view
    existingWorkset3DViews,  \* names of the views found for worksets
    return_viewTemplate,
    new3DViewsNames,         \* names of the views created, in order
    allViews,                \* names of the new and the existing workset views
    views_created,           \* create3DViewsForEachWorkset was called
    visible_worksets         \* view name -> worksets set visible in the view

\* ------------------------------------------------------------------------
\* Project and Shared Parameters Cleaner: checkIfInUse
VARIABLES
    allElementsOfAllCategories,  \* per element, what it holds for the parameter
    inUse                        \* the count shown as 'Used in N elements'

countVars == <<allElementsOfAllCategories, inUse>>

\* Project and Shared Parameters Cleaner: the deletion loop
VARIABLES
    logged    \* the parameters for which 'Error purging parameter' was logged

logVars == <<logged>>

wvVars == <<worksets_collection, views3D, refused_names, worksetsDict,
            existingWorkset3DViews, return_viewTemplate, new3DViewsNames,
            allViews, views_created, visible_worksets>>

vars == <<hostVars, appVars, iiVars, cadVars, dvVars, dsVars, rvtVars, simpleVars, wvVars, countVars, logVars>>

\* the variables of a script that is not the one being run
Log_Idle ==
    /\ logged = {}

Count_Idle ==
    /\ allElementsOfAllCategories = <<>>
    /\ inUse = 0

WV_Idle ==
    /\ worksets_collection = {}
    /\ views3D = {}
    /\ refused_names = {}
    /\ worksetsDict = {}
    /\ existingWorkset3DViews = {}
    /\ return_viewTemplate = "None"
    /\ new3DViewsNames = <<>>
    /\ allViews = {}
    /\ views_created = FALSE
    /\ visible_worksets = <<>>

Simple_Idle ==
    /\ collected = {}
    /\ picked = {}
    /\ changed = {}

RVT_Idle ==
    /\ doc_title = <<>>
    /\ worksets = {}
    /\ not_editable = {}
    /\ revit_links = <<>>
    /\ link_types = <<>>
    /\ dict_order = "short first"
    /\ enable_worksharing = FALSE
    /\ revit_links_selected = {}
    /\ add_originator = FALSE
    /\ add_zone = FALSE
    /\ workset_dict = {}
    /\ new_workset_dict = {}
    /\ current = 0
    /\ workset_name = <<>>
    /\ Ws = <<>>
    /\ link_target = <<>>
    /\ errors = FALSE
    /\ unused_workset_names = {}
    /\ delete_worksets = {}
    /\ deleted_worksets = {}

App_Idle ==
    /\ ver = NoVersion
    /\ IsWorkshared = FALSE
    /\ CanEnableWorksharing = FALSE

DS_Idle ==
    /\ schedule_sheets = <<>>
    /\ legend_sheets = <<>>
    /\ view_sheet = 0
    /\ view_has_dependents = FALSE
    /\ selected_sheets = {}
    /\ sheet_views_to_delete = {}
    /\ schedules_to_delete = {}
    /\ legends_to_delete = {}
    /\ toggled_switches = {}
    /\ deleted_elements = {}

II_Idle ==
    /\ selected_option = "None"
    /\ elements = <<>>
    /\ classes = {}
    /\ n_warnings = 0
    /\ checked_element_ids = {}
    /\ grouped_warnings_ids = <<>>
    /\ warning_number = 1
    /\ elements_ids_to_delete = {}
    /\ DELETED = {}

CAD_Idle ==
    /\ user_worksets = {}
    /\ cad_instances = <<>>
    /\ cad_types = <<>>
    /\ incorrect_workset_cad = {}
    /\ selected_options = {}

DV_Idle ==
    /\ views = <<>>
    /\ selected_elements = {}
    /\ views_to_delete = {}
    /\ deleted_views = {}
    /\ templates_unused = {}
    /\ deleted_templates = {}


\* ------------------------------------------------------------------------
\* Host: transactions, dialogs, document changes

\* a variant of TxnStart that opens nothing
TxnSkipped(name) ==
    /\ txn = "none"
    /\ txn' = txn
    /\ modified' = FALSE

\* revit.Transaction.__enter__ / DB.Transaction.Start
TxnStart(name) ==
    /\ txn = "none"
    /\ txn' = name
    /\ modified' = FALSE

\* revit.Transaction.__exit__ without exception / DB.Transaction.Commit
TxnCommit ==
    /\ txn # "none"
    /\ committed' = IF modified THEN committed \cup {txn} ELSE committed
    /\ txn' = "none"
    /\ modified' = FALSE

\* a call of the host API that changes the document (Delete, Set, Create, ...)
DocChange(call) ==
    /\ modified' = (modified \/ txn # "none")
    /\ outside' = IF txn = "none" THEN outside \cup {call} ELSE outside

\* the user closes a dialog; answered tells whether a choice was made
DialogClosed(name, answeredIt) ==
    /\ shown' = shown \cup {name}
    /\ chosen' = IF answeredIt THEN chosen \cup {name} ELSE chosen

\* forms.alert with a message only
Notice(name) == notices' = notices \cup {name}

HostInit ==
    /\ pc = "start"
    /\ txn = "none"
    /\ modified = FALSE
    /\ committed = {}
    /\ outside = {}
    /\ shown = {}
    /\ chosen = {}
    /\ notices = {}

\* ------------------------------------------------------------------------
\* Identical Instances: data

\* the ids of the elements of the document
ElementIds == DOMAIN elements
MaxWarnings == 3

\* Design options of the document: 0 is the main model; option -> name of its set
MainModel == 0
DesignOptions == {1, 2, 3}
OptionSetName(o) == IF o = 2 THEN "B" ELSE "A"

\* categories of dependent elements that check_dependencies does not count
OmittedCategories == {"Constraints", "Analytical Columns", "<Sketch>",
                      "Automatic Sketch Dimensions"}

\* the kinds of element the document holds; dependents are the categories of
\* the dependent elements other than the element itself ("" = no category)
Plain(option) ==
    [Host |-> FALSE, SuperComponent |-> FALSE, InGroup |-> FALSE,
     DesignOption |-> option, dependents |-> {}]
Kind(name) ==
    CASE name = "free"    -> Plain(MainModel)
      [] name = "sketch"  -> [Plain(MainModel) EXCEPT !.dependents = {"<Sketch>", ""}]
      [] name = "group"   -> [Plain(MainModel) EXCEPT !.InGroup = TRUE]
      [] name = "hosted"  -> [Plain(1) EXCEPT !.Host = TRUE]
      [] name = "nested"  -> [Plain(MainModel) EXCEPT !.SuperComponent = TRUE]
      [] name = "tagged"  -> [Plain(MainModel) EXCEPT !.dependents = {"Door Tags", "Constraints"}]
      [] name = "opt1"    -> Plain(1)
      [] name = "opt2"    -> Plain(2)
      [] name = "opt3"    -> Plain(3)

\* the documents explored: element e is of the kind pattern[e]
Patterns ==
    { <<"free", "free", "free", "free">>,
      <<"free", "group", "opt1", "opt2">>,
      <<"opt1", "opt1", "opt2", "opt3">>,
      <<"hosted", "nested", "tagged", "sketch">>,
      <<"opt2", "free", "tagged", "opt1">>,
      <<"opt3", "opt1", "sketch", "hosted">> }
Documents ==
    { [e \in DOMAIN pattern |-> Kind(pattern[e])] : pattern \in Patterns }

\* the classes after a warning about a and b
Chain(cls, a, b) ==
    LET ca == IF \E c \in cls : a \in c THEN CHOOSE c \in cls : a \in c ELSE {a}
        cb == IF \E c \in cls : b \in c THEN CHOOSE c \in cls : b \in c ELSE {b}
    IN  (cls \ {ca, cb}) \cup {ca \cup cb}

\* ------------------------------------------------------------------------
\* Identical Instances: the grouping loop (script.py 100-130)

ListHas(l, x) == \E i \in 1..Len(l) : l[i] = x
ListSet(l) == {l[i] : i \in 1..Len(l)}

\* one list of grouped_warnings_ids under one warning whose element is checked
ExtendList(l, element_ids) ==
    LET add_element1 == ListHas(l, element_ids[1])
        add_element0 == ListHas(l, element_ids[2])
        l0 == IF add_element0 /\ ~ListHas(l, element_ids[1])
              THEN Append(l, element_ids[1]) ELSE l
    IN  IF add_element1 /\ ~ListHas(l0, element_ids[2])
        THEN Append(l0, element_ids[2]) ELSE l0

\* grouped_warnings_ids after one more warning
GroupWarning(lists, checked, element_ids) ==
    IF element_ids[1] \in checked \/ element_ids[2] \in checked
    THEN [i \in 1..Len(lists) |-> ExtendList(lists[i], element_ids)]
    ELSE Append(lists, <<element_ids[1], element_ids[2]>>)

\* ------------------------------------------------------------------------
\* Identical Instances: which elements may go (script.py 132-202)

\* the check without its GroupId test
check_host_only(element) == element.Host \/ element.SuperComponent

check_host_and_groupId(element) ==
    LET host == element.Host
        super_component == element.SuperComponent
    IN  IF host \/ super_component THEN TRUE
        ELSE element.InGroup

check_dependencies(element) ==
    LET i == Cardinality({c \in element.dependents : c # "" /\ c \notin OmittedCategories})
    IN  i # 0

\* ------------------------------------------------------------------------
\* Identical Instances: the deletion loop over one list (script.py 215-296)

DSNameRank(name) == IF name = "A" THEN 1 ELSE 2

CanDelete(id) ==
    ~check_host_and_groupId(elements[id]) /\ ~check_dependencies(elements[id])
InOption(id) == elements[id].DesignOption # MainModel

ListDeletions(list) ==
    LET ToDeleteMain(id) == CanDelete(id) /\ ~InOption(id)
        ToDeleteOption(id) == CanDelete(id) /\ InOption(id)
        RetainedMain(id) == ~CanDelete(id) /\ ~InOption(id)
        check_to_delete == SelectSeq(list, ToDeleteMain)
        check_to_delete_in_design_options == SelectSeq(list, ToDeleteOption)
        retained == SelectSeq(list, RetainedMain)
        both == check_to_delete \o check_to_delete_in_design_options
        dos == check_to_delete_in_design_options
        \* an element whose design option an earlier element of the list has
        repeated == {dos[i] : i \in {k \in 1..Len(dos) :
                        \E j \in 1..(k-1) :
                            elements[dos[j]].DesignOption = elements[dos[k]].DesignOption}}
        DOSets_elements == ListSet(dos) \ repeated
        DO_ids == {elements[id].DesignOption : id \in ListSet(dos)}
        last_rank == CHOOSE r \in {DSNameRank(OptionSetName(elements[id].DesignOption)) : id \in DOSets_elements} :
                        \A id \in DOSets_elements :
                            DSNameRank(OptionSetName(elements[id].DesignOption)) <= r
        not_last == {id \in DOSets_elements :
                        DSNameRank(OptionSetName(elements[id].DesignOption)) # last_rank}
    IN  IF retained # <<>> THEN ListSet(both)
        ELSE IF check_to_delete # <<>> THEN ListSet(Tail(both))
        ELSE IF dos # <<>>
             THEN repeated \cup
                  (IF Cardinality(DO_ids) > 1 /\ selected_option = "Yes"
                   THEN not_last ELSE {})
             ELSE {}

\* ------------------------------------------------------------------------
\* Identical Instances: the run

II == "Identical Instances"
II_Others == <<appVars, cadVars, dvVars, dsVars, rvtVars, simpleVars, wvVars, countVars, logVars>>

II_Init ==
    /\ script = II
    /\ HostInit
    /\ Log_Idle
    /\ Count_Idle
    /\ WV_Idle
    /\ Simple_Idle
    /\ RVT_Idle
    /\ App_Idle
    /\ CAD_Idle
    /\ DV_Idle
    /\ DS_Idle
    /\ selected_option = "None"
    /\ elements \in Documents
    /\ classes = {}
    /\ n_warnings = 0
    /\ checked_element_ids = {}
    /\ grouped_warnings_ids = <<>>
    /\ warning_number = 1
    /\ elements_ids_to_delete = {}
    /\ DELETED = {}


\* DeleteBetweenOptionSets.show: a button, or the window closed without one
II_ShowOptions ==
    /\ script = II /\ UNCHANGED II_Others
    /\ pc = "start"
    /\ \E r \in {"Yes", "No", "Cancel & Exit", "None"} :
        /\ selected_option' = r
        /\ DialogClosed("DeleteBetweenOptionSets", r # "None")
        /\ pc' = IF r = "Cancel & Exit" THEN "done" ELSE "warnings"
    /\ UNCHANGED <<script, txn, modified, committed, outside, notices>>
    /\ UNCHANGED <<elements, classes, n_warnings, checked_element_ids,
                   grouped_warnings_ids, warning_number, elements_ids_to_delete, DELETED>>

\* one iteration of "for warning in identical_instance_warnings"
II_Warning ==
    /\ script = II /\ UNCHANGED II_Others
    /\ pc = "warnings"
    /\ n_warnings < MaxWarnings
    /\ \E a \in ElementIds, b \in ElementIds :
        /\ a # b
        /\ grouped_warnings_ids' = GroupWarning(grouped_warnings_ids, checked_element_ids, <<a, b>>)
        /\ checked_element_ids' = UNION {ListSet(grouped_warnings_ids'[i]) : i \in 1..Len(grouped_warnings_ids')}
        /\ classes' = Chain(classes, a, b)
    /\ n_warnings' = n_warnings + 1
    /\ UNCHANGED hostVars
    /\ UNCHANGED <<selected_option, elements, warning_number, elements_ids_to_delete, DELETED>>

\* the warnings are exhausted
II_WarningsDone ==
    /\ script = II /\ UNCHANGED II_Others
    /\ pc = "warnings"
    /\ pc' = "lists"
    /\ UNCHANGED <<script, txn, modified, committed, outside, shown, chosen, notices>>
    /\ UNCHANGED iiVars

\* one iteration of "for list in grouped_warnings_ids"
II_List ==
    /\ script = II /\ UNCHANGED II_Others
    /\ pc = "lists"
    /\ warning_number <= Len(grouped_warnings_ids)
    /\ elements_ids_to_delete' =
           elements_ids_to_delete \cup ListDeletions(grouped_warnings_ids[warning_number])
    /\ warning_number' = warning_number + 1
    /\ UNCHANGED hostVars
    /\ UNCHANGED <<selected_option, elements, classes, n_warnings, checked_element_ids,
                   grouped_warnings_ids, DELETED>>

\* "if elements_ids_to_delete:" opens the transaction, else "Nothing was deleted."
II_ListsDone ==
    /\ script = II /\ UNCHANGED II_Others
    /\ pc = "lists"
    /\ warning_number > Len(grouped_warnings_ids)
    /\ IF elements_ids_to_delete # {}
       THEN TxnStart("Delete identical instances") /\ pc' = "delete"
       ELSE pc' = "done" /\ UNCHANGED <<txn, modified>>
    /\ UNCHANGED <<script, committed, outside, shown, chosen, notices>>
    /\ UNCHANGED iiVars

\* the body of the transaction: doc.Delete of every id, each may raise
II_Delete ==
    /\ script = II /\ UNCHANGED II_Others
    /\ pc = "delete"
    /\ \E failed \in SUBSET elements_ids_to_delete :
        /\ Cardinality(failed) <= 1 \/ failed = elements_ids_to_delete
        /\ DELETED' = elements_ids_to_delete \ failed
        /\ IF DELETED' # {} THEN DocChange("Delete") ELSE UNCHANGED <<modified, outside>>
    /\ pc' = "commit"
    /\ UNCHANGED <<script, txn, committed, shown, chosen, notices>>
    /\ UNCHANGED <<selected_option, elements, classes, n_warnings, checked_element_ids,
                   grouped_warnings_ids, warning_number, elements_ids_to_delete>>

II_Commit ==
    /\ script = II /\ UNCHANGED II_Others
    /\ pc = "commit"
    /\ TxnCommit
    /\ IF DELETED # {} THEN Notice("deleted") ELSE UNCHANGED notices
    /\ pc' = "done"
    /\ UNCHANGED <<script, outside, shown, chosen>>
    /\ UNCHANGED iiVars

II_Next ==
    \/ II_ShowOptions
    \/ II_Warning
    \/ II_WarningsDone
    \/ II_List
    \/ II_ListsDone
    \/ II_Delete
    \/ II_Commit

SpecII == II_Init /\ [][II_Next]_vars


\* ------------------------------------------------------------------------
\* CAD Worksets (script.py)

CAD == "CAD Worksets"
CAD_Others == <<ver, iiVars, dvVars, dsVars, rvtVars, simpleVars, wvVars, countVars, logVars>>

NumCads == 2
CadIds == 1..NumCads

correct_workset_name == {"Z-Linked CAD", "Z-Linked-CAD"}

\* names of CAD files; the text before the first " - " of each, and whether
\* the text "Instance" occurs in it
CadNames == {"plan.dwg", "A - site.dwg", "Instances.dwg"}
BeforeDash(cad_name) == IF cad_name = "A - site.dwg" THEN "A" ELSE cad_name
HasInstanceText(cad_name) == cad_name = "Instances.dwg"

\* worksets an import instance can be on; the last is the workset of a view
InstanceWorksets == {"Workset1", "Z-Linked CAD", "Z-Linked-CAD", "View \"Level 1\""}
TypeWorksets == {"Workset1", "Z-Linked CAD"}
StartsWithView(ws) == ws = "View \"Level 1\""


CAD_Init ==
    /\ script = CAD
    /\ HostInit
    /\ Log_Idle
    /\ Count_Idle
    /\ WV_Idle
    /\ Simple_Idle
    /\ RVT_Idle
    /\ II_Idle
    /\ DV_Idle
    /\ DS_Idle
    /\ ver = NoVersion
    /\ IsWorkshared \in BOOLEAN
    /\ CanEnableWorksharing = ~IsWorkshared
    /\ \E n \in 0..NumCads :
          cad_instances \in [1..n -> [name : CadNames, workset : InstanceWorksets]]
    /\ cad_types \in [CadNames -> TypeWorksets]
    /\ user_worksets = {"Workset1"}
           \cup {cad_instances[i].workset : i \in DOMAIN cad_instances}
           \cup {cad_types[cad_instances[i].name] : i \in DOMAIN cad_instances}
    /\ incorrect_workset_cad = {}
    /\ selected_options = {}

\* the entry of the list for one import instance (script.py 55-66); the string
\* "<name> - <what> (Current: ...) - Creator: ... - Id: <id>" is kept in parts
ListEntries(id) ==
    LET cad_workset == cad_instances[id].workset
        cad_type_workset == cad_types[cad_instances[id].name]
        what == IF cad_workset \notin correct_workset_name /\ cad_type_workset \notin correct_workset_name
                THEN "Instance & Type"
                ELSE IF cad_workset \notin correct_workset_name THEN "Instance" ELSE "Type"
    IN  IF ~StartsWithView(cad_workset)
           /\ (cad_workset \notin correct_workset_name \/ cad_type_workset \notin correct_workset_name)
        THEN {[cad_name |-> cad_instances[id].name, what |-> what, id |-> id]}
        ELSE {}

\* selected.split(" - ")[0]
SelectedCadName(selected) == BeforeDash(selected.cad_name)

\* "Instance" if "Instance" in selected else "Type"
SelectedCadType(selected) ==
    IF HasInstanceText(selected.cad_name) \/ selected.what \in {"Instance & Type", "Instance"}
    THEN "Instance" ELSE "Type"

\* lines 25-79: the checks, the list and the selection
CAD_Select ==
    /\ script = CAD /\ pc = "start" /\ UNCHANGED CAD_Others
    /\ UNCHANGED <<script, txn, modified, committed, outside>>
    /\ UNCHANGED <<IsWorkshared, CanEnableWorksharing, user_worksets, cad_instances, cad_types>>
    /\ LET entries == UNION {ListEntries(id) : id \in DOMAIN cad_instances}
       IN  IF cad_instances = <<>> \/ (~IsWorkshared /\ CanEnableWorksharing) \/ entries = {}
           THEN /\ Notice("nothing to correct")
                /\ pc' = "done"
                /\ UNCHANGED <<shown, chosen, incorrect_workset_cad, selected_options>>
           ELSE /\ incorrect_workset_cad' = entries
                /\ \E ticked \in SUBSET entries :
                    /\ selected_options' = ticked
                    /\ DialogClosed("Select CAD files", ticked # {})
                    /\ pc' = IF ticked # {} THEN "open" ELSE "done"
                /\ UNCHANGED notices

\* lines 83-92: revit.Transaction("Correct CAD Worksets").__enter__
CAD_Open ==
    /\ script = CAD /\ pc = "open" /\ UNCHANGED CAD_Others
    /\ TxnStart("Correct CAD Worksets")
    /\ pc' = "correct"
    /\ UNCHANGED <<script, committed, outside, shown, chosen, notices>>
    /\ UNCHANGED <<IsWorkshared, CanEnableWorksharing>>
    /\ UNCHANGED cadVars

\* the workset of one import instance after the loop of lines 97-115
CorrectedInstance(id, target) ==
    IF \E selected \in selected_options :
          /\ SelectedCadName(selected) = cad_instances[id].name
          /\ SelectedCadType(selected) = "Instance"
    THEN [cad_instances[id] EXCEPT !.workset = target]
    ELSE cad_instances[id]

\* the workset of one CAD type after the loop of lines 97-115
CorrectedType(cad_name, target) ==
    IF \E selected \in selected_options :
          /\ SelectedCadName(selected) = cad_name
          /\ SelectedCadType(selected) = "Type"
          /\ \E id \in DOMAIN cad_instances : cad_instances[id].name = cad_name
    THEN target
    ELSE cad_types[cad_name]

\* lines 84-115: the body of the transaction
CAD_Correct ==
    /\ script = CAD /\ pc = "correct" /\ UNCHANGED CAD_Others
    /\ \E target \in IF user_worksets \cap correct_workset_name # {}
                     THEN user_worksets \cap correct_workset_name
                     ELSE {"Z-Linked CAD"} :
        /\ user_worksets' = user_worksets \cup {target}
        /\ cad_instances' = [id \in DOMAIN cad_instances |-> CorrectedInstance(id, target)]
        /\ cad_types' = [n \in CadNames |-> CorrectedType(n, target)]
    /\ IF <<user_worksets', cad_instances', cad_types'>> # <<user_worksets, cad_instances, cad_types>>
       THEN DocChange("Set") ELSE UNCHANGED <<modified, outside>>
    /\ pc' = "commit"
    /\ UNCHANGED <<script, txn, committed, shown, chosen, notices>>
    /\ UNCHANGED <<IsWorkshared, CanEnableWorksharing, incorrect_workset_cad, selected_options>>

\* the transaction is committed; "Selected CAD files have been corrected ..."
CAD_Commit ==
    /\ script = CAD /\ pc = "commit" /\ UNCHANGED CAD_Others
    /\ TxnCommit
    /\ Notice("Correction Complete")
    /\ pc' = "done"
    /\ UNCHANGED <<script, outside, shown, chosen>>
    /\ UNCHANGED <<IsWorkshared, CanEnableWorksharing>>
    /\ UNCHANGED cadVars

CAD_Next ==
    \/ CAD_Select
    \/ CAD_Open
    \/ CAD_Correct
    \/ CAD_Commit

SpecCAD == CAD_Init /\ [][CAD_Next]_vars

\* C6: after the 'Correct CAD Worksets' transaction every CAD file the user
\* selected has its instance and its type on 'Z-Linked CAD' or 'Z-Linked-CAD'.
C6_SelectedCadCorrected ==
    (script = CAD /\ pc = "done" /\ "Correct CAD Worksets" \in committed) =>
        \A selected \in selected_options :
            /\ cad_instances[selected.id].workset \in correct_workset_name
            /\ cad_types[cad_instances[selected.id].name] \in correct_workset_name

\* ------------------------------------------------------------------------
\* Delete Views (script.py)

DV == "Delete Views"
DV_Others == <<appVars, iiVars, cadVars, dsVars, rvtVars, simpleVars, wvVars, countVars, logVars>>

NumViews == 2
ViewIds == 1..NumViews
NoView == 0
NoTemplate == 0
TemplateIds == {1}

\* a selected element is a plan that is on no sheet, a plan placed on a
\* sheet, or a schedule (an element the script ignores)
ViewKinds == {"plan", "plan on sheet", "schedule"}

\* an element and its id are different objects
ViewObject(id) == <<"View", id>>
ElementId(id) == <<"ElementId", id>>

\* the documents: at most one primary view with dependent views
ViewDocuments ==
    { d \in [ViewIds -> [kind : ViewKinds, template : {NoTemplate} \cup TemplateIds,
                         parent : {NoView} \cup ViewIds]] :
        /\ \A v \in ViewIds : d[v].parent # v
        /\ \A v \in ViewIds : d[v].parent # NoView =>
              /\ d[d[v].parent].parent = NoView
              /\ d[v].kind # "schedule"
              /\ d[d[v].parent].kind # "schedule"
        /\ \A v, w \in ViewIds :
              (d[v].parent # NoView /\ d[w].parent # NoView) => d[v].parent = d[w].parent }

\* get_view_sheet(view) is not None
get_view_sheet(id) == views[id].kind = "plan on sheet"

\* get_all_dependent_views(view): ids of the dependent views
get_all_dependent_views(id) == {ElementId(d) : d \in {w \in ViewIds : views[w].parent = id}}

\* a variant of IsIn that compares the ids of the elements
IsInById(x, list) == ViewObject(x[2]) \in list

\* x in list, by equality of the objects
IsIn(x, list) == x \in list

\* lines 52-67: the selected elements that are views of a deletable type
selected_views == {id \in selected_elements : views[id].kind # "schedule"}

\* lines 79-97
FirstPass == {ViewObject(id) : id \in {v \in selected_views :
                 ~(get_view_sheet(v) \/ get_all_dependent_views(v) # {})}}

\* lines 100-109
additional_deletions ==
    {ViewObject(id) : id \in {v \in selected_views :
        /\ get_view_sheet(v) \/ get_all_dependent_views(v) # {}
        /\ get_all_dependent_views(v) # {}
        /\ \A dep_id \in get_all_dependent_views(v) : IsIn(dep_id, FirstPass)}}

\* lines 112-128, with the list of views to delete given
UnusedTemplates(list) ==
    {t \in TemplateIds :
        /\ \E v \in list : views[v[2]].template = t
        /\ \A v \in ViewIds : views[v].template = t => ViewObject(v) \in list}

DV_Init ==
    /\ script = DV
    /\ HostInit
    /\ Log_Idle
    /\ Count_Idle
    /\ WV_Idle
    /\ Simple_Idle
    /\ RVT_Idle
    /\ App_Idle
    /\ II_Idle
    /\ CAD_Idle
    /\ DS_Idle
    /\ views \in ViewDocuments
    /\ selected_elements \in SUBSET ViewIds
    /\ views_to_delete = {}
    /\ deleted_views = {}
    /\ templates_unused = {}
    /\ deleted_templates = {}

\* lines 45-131: the lists are built and the transaction is opened
DV_Main ==
    /\ script = DV /\ pc = "start" /\ UNCHANGED DV_Others
    /\ UNCHANGED <<script, committed, outside, shown, chosen>>
    /\ UNCHANGED <<views, selected_elements, deleted_views, deleted_templates>>
    /\ IF selected_views = {}
       THEN /\ Notice("No views selected")
            /\ pc' = "done"
            /\ UNCHANGED <<txn, modified, views_to_delete, templates_unused>>
       ELSE /\ views_to_delete' = FirstPass \cup additional_deletions
            \* two objects for one element may or may not compare equal
            /\ templates_unused' \in {UnusedTemplates(views_to_delete'), {}}
            /\ TxnStart("Delete unused views")
            /\ pc' = "delete"
            /\ UNCHANGED notices

\* lines 132-145: the deletions and the alert with their number
DV_Delete ==
    /\ script = DV /\ pc = "delete" /\ UNCHANGED DV_Others
    /\ \E failed \in SUBSET views_to_delete :
        /\ Cardinality(failed) <= 1 \/ failed = views_to_delete
        /\ deleted_views' = {v[2] : v \in views_to_delete \ failed}
    /\ IF deleted_views' # {} THEN DocChange("Delete") ELSE UNCHANGED <<modified, outside>>
    /\ Notice("views deleted")
    /\ pc' = "commit"
    /\ UNCHANGED <<script, txn, committed, shown, chosen>>
    /\ UNCHANGED <<views, selected_elements, views_to_delete, templates_unused, deleted_templates>>

\* line 145: the transaction is committed
DV_Commit ==
    /\ script = DV /\ pc = "commit" /\ UNCHANGED DV_Others
    /\ TxnCommit
    /\ pc' = IF templates_unused # {} THEN "templates" ELSE "done"
    /\ UNCHANGED <<script, outside, shown, chosen, notices>>
    /\ UNCHANGED dvVars

\* lines 148-158: "Do you want to delete them?"
DV_AskTemplates ==
    /\ script = DV /\ pc = "templates" /\ UNCHANGED DV_Others
    /\ \E delete_templates \in {"Yes", "No", "None"} :
        /\ DialogClosed("Delete templates", delete_templates = "Yes")
        /\ IF delete_templates = "Yes"
           THEN TxnStart("Delete unused View Templates") /\ pc' = "delete templates"
           ELSE UNCHANGED <<txn, modified>> /\ pc' = "done"
    /\ UNCHANGED <<script, committed, outside, notices>>
    /\ UNCHANGED dvVars

\* lines 159-164
DV_DeleteTemplates ==
    /\ script = DV /\ pc = "delete templates" /\ UNCHANGED DV_Others
    /\ deleted_templates' = templates_unused
    /\ DocChange("Delete")
    /\ pc' = "commit templates"
    /\ UNCHANGED <<script, txn, committed, shown, chosen, notices>>
    /\ UNCHANGED <<views, selected_elements, views_to_delete, deleted_views, templates_unused>>

\* line 158: the transaction is committed
DV_CommitTemplates ==
    /\ script = DV /\ pc = "commit templates" /\ UNCHANGED DV_Others
    /\ TxnCommit
    /\ pc' = "done"
    /\ UNCHANGED <<script, outside, shown, chosen, notices>>
    /\ UNCHANGED dvVars

DV_Next ==
    \/ DV_Main
    \/ DV_Delete
    \/ DV_Commit
    \/ DV_AskTemplates
    \/ DV_DeleteTemplates
    \/ DV_CommitTemplates

SpecDV == DV_Init /\ [][DV_Next]_vars

DS == "Delete Sheets"
DS_Others == <<appVars, iiVars, cadVars, dvVars, rvtVars, simpleVars, wvVars, countVars, logVars>>

NumSheets == 2
Sheets == 1..NumSheets
NoSheet == 0
Schedules == {"Door Schedule"}
Legends == {"Key Legend"}
PlanView == "Level 1"
Versions == {2022, 2023}

\* the elements doc.Delete can remove
SheetElement(sheet) == <<"ViewSheet", "", sheet>>
ViewElement(name) == <<"View", name, NoSheet>>
ScheduleInstance(schedule, sheet) == <<"ScheduleSheetInstance", schedule, sheet>>
LegendViewport(legend, sheet) == <<"Viewport", legend, sheet>>

\* the switches of the window
DeleteSheets == "Delete sheets (deletes all below)"
DeleteViews == "Delete views"
DeleteSchedules == "Delete schedules"
DeleteLegends == "Delete Legends"
RemoveScheduleInstances == "Remove Schedule Instances from selected Sheets"
RemoveLegendViewports == "Remove legend Viewports from selected Sheets"

\* lines 64-76: under IronPython 2 the name sheet is bound by the list
\* comprehension before it is tested, to a ViewSheet
find_other_sheets_with_schedule_legacy(schedule, selected) ==
    {sheet \in schedule_sheets[schedule] : sheet \notin selected}

\* a variant of find_other_sheets_with_schedule that finds no sheet
no_other_sheets(schedule, selected) == {}

\* lines 79-94
find_other_sheets_with_schedule(schedule, selected) ==
    IF ver >= 2023
    THEN {sheet \in schedule_sheets[schedule] : sheet \notin selected}
    ELSE find_other_sheets_with_schedule_legacy(schedule, selected)

\* lines 97-103; same: two objects for one sheet compare equal
get_legend_usage_count(legend, selected, same) ==
    Cardinality({sheet \in Sheets :
        /\ ~(same /\ sheet \in selected)
        /\ sheet \in legend_sheets[legend]})

\* the last of the selected sheets, sorted by sheet number
LastSheet(selected) == CHOOSE sheet \in selected : \A other \in selected : other <= sheet

DS_Init ==
    /\ script = DS
    /\ HostInit
    /\ Log_Idle
    /\ Count_Idle
    /\ WV_Idle
    /\ Simple_Idle
    /\ RVT_Idle
    /\ II_Idle
    /\ CAD_Idle
    /\ DV_Idle
    /\ IsWorkshared = FALSE
    /\ CanEnableWorksharing = FALSE
    /\ ver \in Versions
    /\ schedule_sheets \in [Schedules -> SUBSET Sheets]
    /\ legend_sheets \in [Legends -> SUBSET Sheets]
    /\ view_sheet \in {NoSheet} \cup Sheets
    /\ view_has_dependents \in BOOLEAN
    /\ selected_sheets \in SUBSET Sheets
    /\ sheet_views_to_delete = {}
    /\ schedules_to_delete = {}
    /\ legends_to_delete = {}
    /\ toggled_switches = {}
    /\ deleted_elements = {}

\* lines 112-293: the sets are built and the switches are shown
DS_Main ==
    /\ script = DS /\ pc = "start" /\ UNCHANGED DS_Others
    /\ UNCHANGED <<script, txn, modified, committed, outside>>
    /\ UNCHANGED <<schedule_sheets, legend_sheets, view_sheet, view_has_dependents,
                   selected_sheets, deleted_elements>>
    /\ IF selected_sheets = {}
       THEN /\ Notice("No sheets selected")
            /\ pc' = "done"
            /\ UNCHANGED <<shown, chosen, sheet_views_to_delete, schedules_to_delete,
                           legends_to_delete, toggled_switches>>
       ELSE /\ sheet_views_to_delete' =
                  IF view_sheet \in selected_sheets /\ ~view_has_dependents
                  THEN {PlanView} ELSE {}
            /\ schedules_to_delete' =
                  {schedule \in Schedules :
                      /\ schedule_sheets[schedule] \cap selected_sheets # {}
                      /\ \E sheet \in schedule_sheets[schedule] \cap selected_sheets :
                            find_other_sheets_with_schedule(schedule, selected_sheets) \ {sheet} = {}}
            /\ \E same \in BOOLEAN :
                  legends_to_delete' =
                      {legend \in Legends :
                          /\ legend_sheets[legend] \cap selected_sheets # {}
                          /\ get_legend_usage_count(legend, selected_sheets, same) = 0}
            /\ IF view_sheet = LastSheet(selected_sheets) /\ view_has_dependents
               THEN \* line 224: a dict is looked up in a set, TypeError
                    /\ Notice("TypeError")
                    /\ pc' = "done"
                    /\ UNCHANGED <<shown, chosen, toggled_switches>>
               ELSE /\ \E toggled \in SUBSET
                            ({DeleteSheets}
                             \cup (IF sheet_views_to_delete' # {} THEN {DeleteViews} ELSE {})
                             \cup (IF schedules_to_delete' # {} THEN {DeleteSchedules} ELSE {})
                             \cup (IF legends_to_delete' # {} THEN {DeleteLegends} ELSE {})
                             \cup (IF \E sc \in Schedules : schedule_sheets[sc] \cap selected_sheets # {}
                                   THEN {RemoveScheduleInstances} ELSE {})
                             \cup (IF \E l \in Legends : legend_sheets[l] \cap selected_sheets # {}
                                   THEN {RemoveLegendViewports} ELSE {})) :
                        /\ toggled_switches' = toggled
                        /\ DialogClosed("CommandSwitchWindow", toggled # {})
                        /\ pc' = IF toggled # {} THEN "open" ELSE "report"
                    /\ UNCHANGED notices

\* line 297
DS_Open ==
    /\ script = DS /\ pc = "open" /\ UNCHANGED DS_Others
    /\ TxnStart("Delete Selected Sheets and Associated Elements")
    /\ pc' = "delete"
    /\ UNCHANGED <<script, committed, outside, shown, chosen, notices>>
    /\ UNCHANGED dsVars

\* what falls with an element when it is deleted
Cascade(elements_deleted) ==
    elements_deleted
    \cup {ScheduleInstance(sc, sh) : sc \in {x \in Schedules : ViewElement(x) \in elements_deleted},
                                     sh \in Sheets}
    \cup UNION {{ScheduleInstance(sc, sh), LegendViewport(l, sh)} :
                 sc \in Schedules, l \in Legends,
                 sh \in {x \in Sheets : SheetElement(x) \in elements_deleted}}
    \cup {LegendViewport(l, sh) : l \in {x \in Legends : ViewElement(x) \in elements_deleted},
                                   sh \in Sheets}

\* lines 299-359: the body of the transaction
DS_Delete ==
    /\ script = DS /\ pc = "delete" /\ UNCHANGED DS_Others
    /\ LET all == DeleteSheets \in toggled_switches
           sheets == IF all THEN {SheetElement(sh) : sh \in selected_sheets} ELSE {}
           vs == IF all \/ DeleteViews \in toggled_switches
                 THEN {ViewElement(v) : v \in sheet_views_to_delete} ELSE {}
           scs == IF all \/ DeleteSchedules \in toggled_switches
                  THEN {ViewElement(sc) : sc \in schedules_to_delete} ELSE {}
           ls == IF all \/ DeleteLegends \in toggled_switches
                 THEN {ViewElement(l) : l \in legends_to_delete} ELSE {}
           sis == IF ~all /\ RemoveScheduleInstances \in toggled_switches
                  THEN {ScheduleInstance(sc, sh) : sc \in Schedules, sh \in selected_sheets}
                  ELSE {}
           vps == IF ~all /\ RemoveLegendViewports \in toggled_switches
                  THEN {LegendViewport(l, sh) : l \in Legends, sh \in selected_sheets}
                  ELSE {}
           placed == {ScheduleInstance(sc, sh) : sc \in Schedules, sh \in Sheets}
                     \cup {LegendViewport(l, sh) : l \in Legends, sh \in Sheets}
           exists(e) == IF e \in placed
                        THEN \/ /\ e[1] = "ScheduleSheetInstance"
                                /\ e[3] \in schedule_sheets[e[2]]
                             \/ /\ e[1] = "Viewport"
                                /\ e[3] \in legend_sheets[e[2]]
                        ELSE TRUE
       IN  deleted_elements' =
               {e \in Cascade(sheets \cup vs \cup scs \cup ls \cup sis \cup vps) : exists(e)}
    /\ IF deleted_elements' # {} THEN DocChange("Delete") ELSE UNCHANGED <<modified, outside>>
    /\ pc' = "commit"
    /\ UNCHANGED <<script, txn, committed, shown, chosen, notices>>
    /\ UNCHANGED <<schedule_sheets, legend_sheets, view_sheet, view_has_dependents,
                   selected_sheets, sheet_views_to_delete, schedules_to_delete,
                   legends_to_delete, toggled_switches>>

\* the transaction is committed
DS_Commit ==
    /\ script = DS /\ pc = "commit" /\ UNCHANGED DS_Others
    /\ TxnCommit
    /\ pc' = "report"
    /\ UNCHANGED <<script, outside, shown, chosen, notices>>
    /\ UNCHANGED dsVars

\* line 363: the alert with what was deleted
DS_Report ==
    /\ script = DS /\ pc = "report" /\ UNCHANGED DS_Others
    /\ Notice("Deletion Confirmation")
    /\ pc' = "done"
    /\ UNCHANGED <<script, txn, modified, committed, outside, shown, chosen>>
    /\ UNCHANGED dsVars

DS_Next ==
    \/ DS_Main
    \/ DS_Open
    \/ DS_Delete
    \/ DS_Commit
    \/ DS_Report

SpecDS == DS_Init /\ [][DS_Next]_vars

\* C8: in Delete Sheets a schedule or a legend is in the set to delete, and
\* is deleted, only if it is placed on no sheet outside the selected sheets.
C8_SharedSchedulesAndLegendsKept ==
    script = DS =>
        /\ \A schedule \in Schedules :
              (schedule \in schedules_to_delete \/ ViewElement(schedule) \in deleted_elements)
                  => schedule_sheets[schedule] \subseteq selected_sheets
        /\ \A legend \in Legends :
              (legend \in legends_to_delete \/ ViewElement(legend) \in deleted_elements)
                  => legend_sheets[legend] \subseteq selected_sheets

\* the selected sheets were deleted with a legend that is on no other sheet,
\* and a schedule that is also on a sheet that was not selected was kept
C8_Witness ==
    /\ script = DS /\ pc = "done"
    /\ \E sheet \in selected_sheets : SheetElement(sheet) \in deleted_elements
    /\ \E legend \in Legends : ViewElement(legend) \in deleted_elements
    /\ \E schedule \in Schedules :
          /\ schedule_sheets[schedule] \cap selected_sheets # {}
          /\ schedule_sheets[schedule] \ selected_sheets # {}
          /\ ViewElement(schedule) \notin deleted_elements

\* ------------------------------------------------------------------------
\* RVT Link Worksets (script.py)

RVT == "RVT Link Worksets"
RVT_Others == <<iiVars, cadVars, dvVars, dsVars, simpleVars, wvVars, countVars, logVars>>

\* Names are sequences of parts, so that str.startswith and the substring
\* test of the code are tests on sequences.
StartsWith(name, prefix) ==
    /\ Len(prefix) <= Len(name)
    /\ SubSeq(name, 1, Len(prefix)) = prefix

\* needle in text, for two strings
Contains(text, needle) ==
    \E i \in 0..(Len(text) - Len(needle)) : SubSeq(text, i + 1, i + Len(needle)) = needle

\* ',\n'.join(names); the substring test does not depend on the order
RECURSIVE Join(_)
Join(names) ==
    IF names = {} THEN <<>>
    ELSE LET name == CHOOSE n \in names : TRUE
         IN  IF names = {name} THEN name
             ELSE name \o <<",\n">> \o Join(names \ {name})

NoName == <<>>
linked_file_prefix == <<"Z-Linked", " ", "RVT", "-">>
Workset1 == <<"Workset1">>
SharedLevelsAndGrids == <<"Shared Levels and Grids">>

\* a file name GSK-<originator>-<zone>-ZZ-M3-<discipline>-<digits>.rvt, or a
\* name that does not follow the standard
StandardFile(originator, zone, discipline, digits) ==
    [std |-> TRUE, originator |-> originator, zone |-> zone,
     discipline |-> discipline, digits |-> digits, name |-> <<>>]
OtherFile(name) ==
    [std |-> FALSE, originator |-> "", zone |-> "", discipline |-> "",
     digits |-> <<>>, name |-> name]

IntOf(digit) == CASE digit = "0" -> 0 [] digit = "1" -> 1 [] digit = "2" -> 2

\* lines 224-230: the other link names and the title of the document that
\* start with the base name of the file
similar_link_names(file) ==
    {g \in ({revit_links[i].file : i \in DOMAIN revit_links} \ {file}) \cup {doc_title} :
        /\ g.std
        /\ g.originator = file.originator
        /\ g.zone = file.zone
        /\ g.discipline = file.discipline}

\* lines 232-249
find_similar_part_names(desc, part_number, file, similar) ==
    LET last_digit == file.digits[Len(file.digits)]
        numbered == IF desc # <<>> THEN desc \o <<" ", last_digit>> ELSE <<last_digit>>
    IN  IF IntOf(last_digit) > 1 THEN numbered
        ELSE IF \E g \in similar : g.digits[1] = part_number THEN numbered
        ELSE desc

\* lines 196-284: instance_name of a file that follows the standard
InstanceName(file) ==
    LET originator == IF file.discipline = "A" /\ ~add_originator
                      THEN <<>> ELSE <<"-", file.originator>>
        zone == IF file.zone = "ZZ" \/ ~add_zone THEN <<>> ELSE <<"-", file.zone>>
        instance_name == <<file.discipline>> \o originator \o zone
        digits == file.digits
        last_digit == digits[Len(digits)]
        similar == similar_link_names(file)
    IN  IF similar # {}
        THEN instance_name \o <<"-">> \o
             (IF digits[1] = "1" /\ file.discipline = "A"
              THEN find_similar_part_names(<<"Internal">>, "1", file, similar)
              ELSE IF digits[1] = "2" /\ file.discipline = "A"
              THEN find_similar_part_names(<<"Facade">>, "2", file, similar)
              ELSE find_similar_part_names(<<>>, digits[2], file, similar))
        ELSE IF digits[1] = "1"
        THEN instance_name \o <<"-">> \o find_similar_part_names(<<"Internal">>, "1", file, similar)
        ELSE IF digits[1] = "2"
        THEN instance_name \o <<"-">> \o find_similar_part_names(<<"Facade">>, "2", file, similar)
        ELSE IF IntOf(last_digit) > 1
        THEN instance_name \o <<"-", digits[2], last_digit>>
        ELSE instance_name

\* lines 285-289
WorksetName(file) ==
    IF file.std THEN linked_file_prefix \o InstanceName(file)
    ELSE linked_file_prefix \o file.name

\* lines 292-304: the names that start with the computed name, those of
\* workset_dict before those of new_workset_dict
ExistingWorksets(name) ==
    IF enable_worksharing THEN <<{}, {}>>
    ELSE <<{n \in workset_dict : StartsWith(n, name)},
           {n \in new_workset_dict : StartsWith(n, name)}>>

\* existing_worksets[0]
FirstOf(existing) ==
    LET names == IF existing[1] # {} THEN existing[1] ELSE existing[2]
    IN  CHOOSE n \in names :
            \A m \in names :
                IF dict_order = "short first" THEN Len(n) <= Len(m) ELSE Len(n) >= Len(m)

\* lines 382-412: the worksets reported as unused
UnusedWorksets ==
    {ws_name \in workset_dict :
        /\ StartsWith(ws_name, <<"Z-Linked">>)
        /\ ~(StartsWith(ws_name, <<"Z-Linked", " ", "CAD">>)
             \/ StartsWith(ws_name, <<"Z-Linked", "-", "CAD">>))
        /\ ~\E i \in DOMAIN revit_links : revit_links[i].workset = ws_name}

\* the files and the worksets of the documents
HostFile == StandardFile("HTL", "ZZ", "A", <<"0", "0", "0", "1">>)
ArchFile == StandardFile("XYZ", "RE", "A", <<"0", "0", "0", "1">>)
StructFile == StandardFile("ABC", "ZZ", "S", <<"0", "0", "0", "1">>)
StructFile2 == StandardFile("ABC", "ZZ", "S", <<"0", "0", "0", "2">>)
SiteFile == OtherFile(<<"site">>)

ZLinkedA == linked_file_prefix \o <<"A">>
ZLinkedAXYZ == linked_file_prefix \o <<"A", "-", "XYZ">>
ZLinkedSABC == linked_file_prefix \o <<"S", "-", "ABC">>
ZLinkedCAD == <<"Z-Linked", " ", "CAD">>
XYZ == <<"XYZ">>

Project(workshared, can_enable, names, locked, links, types) ==
    [workshared |-> workshared, can_enable |-> can_enable, worksets |-> names,
     not_editable |-> locked, links |-> links, types |-> types]

Link(file, workset) == [file |-> file, workset |-> workset]
OneType(file, workset) == [f \in {file} |-> workset]

Projects ==
    { \* no link
      Project(TRUE, FALSE, {Workset1}, {}, <<>>, <<>>),
      \* not workshared
      Project(FALSE, TRUE, {}, {}, <<Link(StructFile, Workset1)>>, OneType(StructFile, Workset1)),
      Project(FALSE, FALSE, {}, {}, <<Link(StructFile, Workset1)>>, OneType(StructFile, Workset1)),
      \* a link on the workset of an earlier name
      Project(TRUE, FALSE, {Workset1, ZLinkedA, ZLinkedAXYZ}, {},
              <<Link(ArchFile, ZLinkedA)>>, OneType(ArchFile, ZLinkedA)),
      \* links on Workset1 and worksets left from before
      Project(TRUE, FALSE, {Workset1, XYZ, ZLinkedAXYZ, ZLinkedCAD}, {},
              <<Link(SiteFile, Workset1), Link(StructFile, Workset1)>>,
              [f \in {SiteFile, StructFile} |-> Workset1]),
      \* two instances of one file, and a file with a similar name
      Project(TRUE, FALSE, {Workset1, ZLinkedSABC}, {ZLinkedSABC},
              <<Link(StructFile, Workset1), Link(StructFile, ZLinkedSABC),
                Link(StructFile2, Workset1)>>,
              [f \in {StructFile, StructFile2} |-> IF f = StructFile THEN ZLinkedSABC ELSE Workset1]),
      \* a link in place and a workset that is not editable
      Project(TRUE, FALSE, {Workset1, ZLinkedA, ZLinkedAXYZ, ZLinkedSABC}, {ZLinkedA},
              <<Link(ArchFile, ZLinkedAXYZ), Link(StructFile, ZLinkedSABC)>>,
              [f \in {ArchFile, StructFile} |-> IF f = ArchFile THEN ZLinkedAXYZ ELSE ZLinkedSABC]) }

RVT_Init ==
    /\ script = RVT
    /\ HostInit
    /\ Log_Idle
    /\ Count_Idle
    /\ WV_Idle
    /\ Simple_Idle
    /\ II_Idle
    /\ CAD_Idle
    /\ DV_Idle
    /\ DS_Idle
    /\ ver \in Versions
    /\ \E p \in Projects :
        /\ IsWorkshared = p.workshared
        /\ CanEnableWorksharing = p.can_enable
        /\ worksets = p.worksets
        /\ not_editable = p.not_editable
        /\ revit_links = p.links
        /\ link_types = p.types
        /\ link_target = [i \in DOMAIN p.links |-> NoName]
    /\ doc_title = HostFile
    /\ dict_order \in {"short first", "long first"}
    /\ enable_worksharing = FALSE
    /\ revit_links_selected = {}
    /\ add_originator = FALSE
    /\ add_zone = FALSE
    /\ workset_dict = {}
    /\ new_workset_dict = {}
    /\ current = 0
    /\ workset_name = NoName
    /\ Ws = NoName
    /\ errors = FALSE
    /\ unused_workset_names = {}
    /\ delete_worksets = {}
    /\ deleted_worksets = {}

\* lines 32-48: the checks and the question about worksharing
RVT_Start ==
    /\ script = RVT /\ pc = "start" /\ UNCHANGED RVT_Others
    /\ UNCHANGED <<script, txn, committed, ver>>
    /\ UNCHANGED <<not_editable, revit_links, link_types, doc_title, dict_order,
                   revit_links_selected, add_originator, add_zone, workset_dict>>
    /\ UNCHANGED <<rvtLoop, rvtEnd>>
    /\ IF revit_links = <<>>
       THEN /\ Notice("No Revit links found")
            /\ pc' = "done"
            /\ UNCHANGED <<modified, outside, shown, chosen, IsWorkshared,
                           CanEnableWorksharing, worksets, enable_worksharing>>
       ELSE IF ~IsWorkshared /\ CanEnableWorksharing
       THEN \E answer \in BOOLEAN :
            /\ DialogClosed("Enable Worksharing?", answer)
            /\ enable_worksharing' = answer
            /\ pc' = "select"
            /\ UNCHANGED notices
            /\ IF answer
               THEN /\ DocChange("EnableWorksharing")
                    /\ IsWorkshared' = TRUE
                    /\ CanEnableWorksharing' = FALSE
                    /\ worksets' = {SharedLevelsAndGrids, Workset1}
               ELSE UNCHANGED <<modified, outside, IsWorkshared, CanEnableWorksharing, worksets>>
       ELSE IF ~IsWorkshared /\ ~CanEnableWorksharing
       THEN /\ Notice("Worksharing not possible")
            /\ pc' = "done"
            /\ UNCHANGED <<modified, outside, shown, chosen, IsWorkshared,
                           CanEnableWorksharing, worksets, enable_worksharing>>
       ELSE /\ pc' = "select"
            /\ UNCHANGED <<modified, outside, shown, chosen, notices, IsWorkshared,
                           CanEnableWorksharing, worksets, enable_worksharing>>

\* lines 83-136: the list of links and the two questions about the names
RVT_Select ==
    /\ script = RVT /\ pc = "select" /\ UNCHANGED RVT_Others
    /\ UNCHANGED <<script, txn, modified, committed, outside, appVars>>
    /\ UNCHANGED <<rvtDoc, doc_title, dict_order, enable_worksharing>>
    /\ UNCHANGED <<rvtLoop, rvtEnd>>
    /\ IF ~IsWorkshared
       THEN \* the list reads the name of the workset of each link
            /\ Notice("AttributeError")
            /\ pc' = "done"
            /\ UNCHANGED <<shown, chosen, revit_links_selected, add_originator,
                           add_zone, workset_dict>>
       ELSE \E ticked \in SUBSET DOMAIN revit_links :
            /\ revit_links_selected' = ticked
            /\ UNCHANGED notices
            /\ IF ticked = {}
               THEN /\ DialogClosed("Select linked Revit files", FALSE)
                    /\ pc' = "done"
                    /\ UNCHANGED <<add_originator, add_zone, workset_dict>>
               ELSE /\ shown' = shown \cup {"Select linked Revit files", "Include HTL?",
                                            "Include Zones?"}
                    /\ chosen' = chosen \cup {"Select linked Revit files", "Include HTL?",
                                              "Include Zones?"}
                    /\ add_originator' \in BOOLEAN
                    /\ add_zone' \in BOOLEAN
                    /\ workset_dict' = IF enable_worksharing THEN {} ELSE worksets
                    /\ pc' = "links"

\* lines 138-312: the next selected link, its workset name and the worksets
\* that exist for it
RVT_Link ==
    /\ script = RVT /\ pc = "links" /\ UNCHANGED RVT_Others
    /\ UNCHANGED <<script, committed, outside, shown, chosen, notices, appVars>>
    /\ UNCHANGED <<rvtDoc, rvtInputs, rvtEnd, new_workset_dict, errors>>
    /\ LET rest == {i \in revit_links_selected : i > current}
       IN  IF rest = {}
           THEN /\ pc' = "unused"
                /\ UNCHANGED <<txn, modified, current, workset_name, Ws, link_target>>
           ELSE LET link == CHOOSE i \in rest : \A j \in rest : i <= j
                    name == WorksetName(revit_links[link].file)
                    existing_worksets == ExistingWorksets(name)
                IN  /\ current' = link
                    /\ workset_name' = name
                    /\ IF existing_worksets = <<{}, {}>>
                       THEN /\ Ws' = NoName
                            /\ TxnStart("Create Workset for linked model.")
                            /\ pc' = "create"
                            /\ UNCHANGED link_target
                       ELSE /\ Ws' = FirstOf(existing_worksets)
                            /\ link_target' = [link_target EXCEPT ![link] = Ws']
                            /\ pc' = "instance?"
                            /\ UNCHANGED <<txn, modified>>

\* the file of the link the loop is at
CurrentFile == revit_links[current].file

\* lines 314-335: the body of 'Create Workset for linked model.'
RVT_Create ==
    /\ script = RVT /\ pc = "create" /\ UNCHANGED RVT_Others
    /\ UNCHANGED <<script, txn, committed, shown, chosen, notices, appVars>>
    /\ UNCHANGED <<not_editable, rvtInputs, rvtEnd, current, workset_name, Ws>>
    /\ \E raised \in BOOLEAN :
        IF raised \/ workset_name \in worksets
        THEN /\ errors' = TRUE
             /\ UNCHANGED <<modified, outside, worksets, revit_links, link_types,
                            new_workset_dict, link_target>>
        ELSE /\ worksets' = worksets \cup {workset_name}
             /\ revit_links' = [revit_links EXCEPT ![current].workset = workset_name]
             /\ link_types' = [link_types EXCEPT ![CurrentFile] = workset_name]
             /\ new_workset_dict' = new_workset_dict \cup {workset_name}
             /\ link_target' = [link_target EXCEPT ![current] = workset_name]
             /\ DocChange("Create")
             /\ UNCHANGED errors
    /\ pc' = "commit create"

\* lines 343-344: is the instance on the workset
RVT_InstanceCheck ==
    /\ script = RVT /\ pc = "instance?" /\ UNCHANGED RVT_Others
    /\ UNCHANGED <<script, committed, outside, shown, chosen, notices, appVars>>
    /\ UNCHANGED rvtVars
    /\ IF ~StartsWith(Ws, revit_links[current].workset)
       THEN /\ TxnStart("Set correct Workset for linked model instance")
            /\ pc' = "set instance"
       ELSE /\ pc' = "type?"
            /\ UNCHANGED <<txn, modified>>

\* lines 345-361
RVT_SetInstance ==
    /\ script = RVT /\ pc = "set instance" /\ UNCHANGED RVT_Others
    /\ UNCHANGED <<script, txn, committed, shown, chosen, notices, appVars>>
    /\ UNCHANGED <<worksets, not_editable, link_types, rvtInputs, rvtEnd>>
    /\ UNCHANGED <<new_workset_dict, current, workset_name, Ws, link_target>>
    /\ \E raised \in BOOLEAN :
        IF raised
        THEN /\ errors' = TRUE
             /\ UNCHANGED <<modified, outside, revit_links>>
        ELSE /\ revit_links' = [revit_links EXCEPT ![current].workset = Ws]
             /\ DocChange("Set")
             /\ UNCHANGED errors
    /\ pc' = "commit instance"

\* lines 362-363: is the type on the workset
RVT_TypeCheck ==
    /\ script = RVT /\ pc = "type?" /\ UNCHANGED RVT_Others
    /\ UNCHANGED <<script, committed, outside, shown, chosen, notices, appVars>>
    /\ UNCHANGED rvtVars
    /\ IF ~StartsWith(Ws, link_types[CurrentFile])
       THEN /\ TxnStart("Set correct Workset for linked model Type")
            /\ pc' = "set type"
       ELSE /\ pc' = "links"
            /\ UNCHANGED <<txn, modified>>

\* lines 364-370
RVT_SetType ==
    /\ script = RVT /\ pc = "set type" /\ UNCHANGED RVT_Others
    /\ UNCHANGED <<script, txn, committed, shown, chosen, notices, appVars>>
    /\ UNCHANGED <<worksets, not_editable, revit_links, rvtInputs, rvtEnd>>
    /\ UNCHANGED <<new_workset_dict, current, workset_name, Ws, link_target>>
    /\ \E raised \in BOOLEAN :
        IF raised
        THEN /\ errors' = TRUE
             /\ UNCHANGED <<modified, outside, link_types>>
        ELSE /\ link_types' = [link_types EXCEPT ![CurrentFile] = Ws]
             /\ DocChange("Set")
             /\ UNCHANGED errors
    /\ pc' = "commit type"

\* the end of a with block: the transaction is committed
RVT_Commit ==
    /\ script = RVT /\ UNCHANGED RVT_Others
    /\ pc \in {"commit create", "commit instance", "commit type", "commit delete"}
    /\ TxnCommit
    /\ pc' = CASE pc = "commit create" -> "links"
               [] pc = "commit instance" -> "type?"
               [] pc = "commit type" -> "links"
               [] pc = "commit delete" -> "done"
    /\ UNCHANGED <<script, outside, shown, chosen, notices, appVars>>
    /\ UNCHANGED rvtVars

\* lines 377-436: the unused worksets, the question and the worksets to delete
RVT_Unused ==
    /\ script = RVT /\ pc = "unused" /\ UNCHANGED RVT_Others
    /\ UNCHANGED <<script, committed, outside, appVars>>
    /\ UNCHANGED <<rvtDoc, rvtInputs, rvtLoop, deleted_worksets>>
    /\ unused_workset_names' = IF enable_worksharing THEN {} ELSE UnusedWorksets
    /\ IF unused_workset_names' = {}
       THEN /\ pc' = "done"
            /\ UNCHANGED <<txn, modified, shown, chosen, notices, delete_worksets>>
       ELSE IF ver >= 2023
       THEN \E delete_empty_link_worksets \in BOOLEAN :
            /\ DialogClosed("Delete empty Z-Linked... Worksets?", delete_empty_link_worksets)
            /\ UNCHANGED notices
            /\ delete_worksets' =
                  IF delete_empty_link_worksets
                  THEN {name \in workset_dict : Contains(Join(unused_workset_names'), name)}
                  ELSE {}
            /\ IF delete_worksets' # {}
               THEN TxnStart("Delete Unused Worksets") /\ pc' = "delete"
               ELSE UNCHANGED <<txn, modified>> /\ pc' = "done"
       ELSE /\ Notice("Delete following Worksets manually")
            /\ pc' = "done"
            /\ UNCHANGED <<txn, modified, shown, chosen, delete_worksets>>

\* lines 437-458: the body of 'Delete Unused Worksets'; the elements of a
\* deleted workset move to the default workset
RVT_Delete ==
    /\ script = RVT /\ pc = "delete" /\ UNCHANGED RVT_Others
    /\ UNCHANGED <<script, txn, committed, shown, chosen, appVars>>
    /\ UNCHANGED <<not_editable, rvtInputs, unused_workset_names, delete_worksets>>
    /\ UNCHANGED <<new_workset_dict, current, workset_name, Ws, link_target>>
    /\ \E raised \in SUBSET (delete_worksets \ not_editable) :
        /\ deleted_worksets' = (delete_worksets \ not_editable) \ raised
        /\ errors' = (errors \/ raised # {})
    /\ worksets' = worksets \ deleted_worksets'
    /\ revit_links' = [i \in DOMAIN revit_links |->
                          IF revit_links[i].workset \in deleted_worksets'
                          THEN [revit_links[i] EXCEPT !.workset = Workset1]
                          ELSE revit_links[i]]
    /\ link_types' = [f \in DOMAIN link_types |->
                          IF link_types[f] \in deleted_worksets' THEN Workset1 ELSE link_types[f]]
    /\ IF deleted_worksets' # {} THEN DocChange("DeleteWorkset") ELSE UNCHANGED <<modified, outside>>
    /\ Notice("Deleted Workset")
    /\ pc' = "commit delete"

RVT_Next ==
    \/ RVT_Start
    \/ RVT_Select
    \/ RVT_Link
    \/ RVT_Create
    \/ RVT_InstanceCheck
    \/ RVT_SetInstance
    \/ RVT_TypeCheck
    \/ RVT_SetType
    \/ RVT_Commit
    \/ RVT_Unused
    \/ RVT_Delete

SpecRVT == RVT_Init /\ [][RVT_Next]_vars

\* C9: when the loop over the selected links has ended without a reported
\* error, and no workset was deleted, every selected link instance and its
\* link type are on the workset created or used for that link.
C9_SelectedLinksOnChosenWorkset ==
    (/\ script = RVT
     /\ pc \in {"unused", "delete", "commit delete", "done"}
     /\ ~errors
     /\ deleted_worksets = {})
    => \A i \in revit_links_selected :
          /\ link_target[i] # NoName
          /\ revit_links[i].workset = link_target[i]
          /\ link_types[revit_links[i].file] = link_target[i]

\* C10: a workset is deleted only if it was reported as unused, is editable,
\* the deletion was confirmed and the version is 2023 or later; a workset with
\* a link, or with a name that does not start with 'Z-Linked', is not deleted.
C10_OnlyUnusedWorksetsDeleted ==
    script = RVT =>
        \A name \in deleted_worksets :
            /\ name \in unused_workset_names
            /\ name \notin not_editable
            /\ ver >= 2023
            /\ "Delete empty Z-Linked... Worksets?" \in chosen
            /\ StartsWith(name, <<"Z-Linked">>)

\* ------------------------------------------------------------------------
\* The other scripts that open a transaction

PIN == "PinLinksAndGrids"
TAG == "Id TagNumber"
PURGE == "Purge Images"
SURFACE == "To TopoSurface"
MERGE == "Merge TopoSolids"
SIZE == "Add Size"
LEGENDS == "Delete Legends"
SCHEDULES == "Delete Schedules"
FILTERS == "Remove Unused Filters"
WV == "Workset Views"
PP == "Project Parameters Cleaner"
SP == "Shared Parameters Cleaner"

SimpleScripts == {PIN, TAG, PURGE, SURFACE, MERGE, SIZE, LEGENDS, SCHEDULES, FILTERS, WV, PP, SP}

Simple_Others == <<appVars, iiVars, cadVars, dvVars, dsVars, rvtVars, wvVars, countVars>>

\* the number of elements a script may find in the document
MaxTargets == 2

Targets == 1..MaxTargets

\* the elements of the Add Size collection that are members of a group
GroupedTargets == {1}

\* revit.Transaction.__exit__ with an exception (script.exit() included)
TxnRollback ==
    /\ txn # "none"
    /\ txn' = "none"
    /\ modified' = FALSE

\* the script named s is the one running, and stays so
Running(s) ==
    /\ script = s
    /\ UNCHANGED script
    /\ UNCHANGED Simple_Others
    /\ UNCHANGED logVars

\* the script s is the one being run, in its deletion loop
RunningLoop(s) ==
    /\ script = s
    /\ UNCHANGED script
    /\ UNCHANGED Simple_Others

\* "with revit.Transaction(name):" is entered
OpenStep(from, name, to) ==
    /\ pc = from
    /\ TxnStart(name)
    /\ pc' = to
    /\ UNCHANGED <<committed, outside, shown, chosen, notices>>
    /\ UNCHANGED simpleVars

\* the body of the transaction changes the elements of the set done
ChangeStep(from, call, done, to) ==
    /\ pc = from
    /\ changed' = done
    /\ IF done # {} THEN DocChange(call) ELSE UNCHANGED <<modified, outside>>
    /\ pc' = to
    /\ UNCHANGED <<txn, committed, shown, chosen, notices, collected, picked>>

\* the with-block is left without an exception, and the closing alert is shown
CommitStep(from, message) ==
    /\ pc = from
    /\ TxnCommit
    /\ IF message = "" THEN UNCHANGED notices ELSE Notice(message)
    /\ pc' = "done"
    /\ UNCHANGED <<outside, shown, chosen>>
    /\ UNCHANGED simpleVars

\* an exception leaves the with-block: the transaction is rolled back
RollbackStep(from) ==
    /\ pc = from
    /\ TxnRollback
    /\ pc' = "done"
    /\ UNCHANGED <<committed, outside, shown, chosen, notices>>
    /\ UNCHANGED simpleVars

\* the script ends before any transaction, with or without an alert
EndStep(message) ==
    /\ IF message = "" THEN UNCHANGED notices ELSE Notice(message)
    /\ pc' = "done"
    /\ UNCHANGED <<txn, modified, committed, outside>>

Simple_Init ==
    /\ script \in SimpleScripts \ {WV}
    /\ HostInit
    /\ Log_Idle
    /\ Count_Idle
    /\ WV_Idle
    /\ RVT_Idle
    /\ App_Idle
    /\ II_Idle
    /\ CAD_Idle
    /\ DV_Idle
    /\ DS_Idle
    /\ collected \in SUBSET Targets
    /\ picked = {}
    /\ changed = {}

\* --- PinLinksAndGrids ---

\* t.Start()
PIN_Start ==
    /\ Running(PIN)
    /\ OpenStep("start", "Pin Links and Grids", "pin")

\* pinElements(gridCollection); pinElements(levelCollection)
PIN_Pin ==
    /\ Running(PIN)
    /\ ChangeStep("pin", "Pinned", collected, "commit")

\* t.Commit()
PIN_Commit ==
    /\ Running(PIN)
    /\ CommitStep("commit", "")

\* --- Id TagNumber ---

TAG_Start ==
    /\ Running(TAG)
    /\ OpenStep("start", "Copy Element Id to COBie.Component.TagNumber", "copy")

\* copy_element_id_to_tag_number sets the parameter where it exists and is writable
TAG_Copy ==
    /\ Running(TAG)
    /\ \E writable \in SUBSET collected :
        ChangeStep("copy", "Set", writable, "commit")

TAG_Commit ==
    /\ Running(TAG)
    /\ CommitStep("commit", "")

\* --- Purge Images ---

\* a variant of Confirmed that goes on whatever the answer
ConfirmedAnyway(purge) == purge \in {"Yes", "No"}

\* "if purge:" after an alert with exitscript=True: only Yes goes on
Confirmed(purge) == purge = "Yes"

\* forms.alert('Purge all images?', yes, no, cancel, exitscript=True)
PURGE_Ask ==
    /\ Running(PURGE)
    /\ pc = "start"
    /\ \E purge \in {"Yes", "No", "Cancel"} :
        /\ DialogClosed("Purge all images?", purge = "Yes")
        /\ IF Confirmed(purge)
           THEN /\ TxnStart("Purge all images")
                /\ pc' = "delete"
                /\ UNCHANGED <<committed, outside, notices>>
           ELSE EndStep("")
    /\ UNCHANGED simpleVars

\* doc.Delete(image_type.Id) for every image type
PURGE_Delete ==
    /\ Running(PURGE)
    /\ ChangeStep("delete", "Delete", collected, "commit")

PURGE_Commit ==
    /\ Running(PURGE)
    /\ CommitStep("commit", "")

\* --- To TopoSurface ---

SURFACE_Start ==
    /\ Running(SURFACE)
    /\ OpenStep("start", "Convert Toposolid to TopographySurface", "pick")

\* pick_toposolid inside the transaction: Escape raises and script.exit() ends
\* the script; fewer than 3 points raise a ValueError that is caught
SURFACE_Pick ==
    /\ Running(SURFACE)
    /\ pc = "pick"
    /\ \E toposolid \in collected \cup {0}, enough \in BOOLEAN :
        /\ DialogClosed("Select a Toposolid", toposolid # 0)
        /\ picked' = IF toposolid = 0 THEN {} ELSE {toposolid}
        /\ IF toposolid = 0
           THEN /\ TxnRollback
                /\ pc' = "done"
                /\ UNCHANGED <<outside, changed>>
           ELSE /\ changed' = IF enough THEN {toposolid} ELSE {}
                /\ IF enough THEN DocChange("Create") ELSE UNCHANGED <<modified, outside>>
                /\ pc' = "commit"
                /\ UNCHANGED txn
    /\ UNCHANGED <<committed, notices, collected>>

SURFACE_Commit ==
    /\ Running(SURFACE)
    /\ CommitStep("commit", "")

\* --- Merge TopoSolids ---

MERGE_Start ==
    /\ Running(MERGE)
    /\ OpenStep("start", "Convert Toposolids to Toposolid", "pick")

\* pick_toposolids inside the transaction, then DB.Toposolid.Create
MERGE_Pick ==
    /\ Running(MERGE)
    /\ pc = "pick"
    /\ \E escaped \in BOOLEAN, toposolids \in SUBSET collected, enough \in BOOLEAN :
        /\ DialogClosed("Select Toposolids", ~escaped /\ toposolids # {})
        /\ picked' = IF escaped THEN {} ELSE toposolids
        /\ IF escaped
           THEN /\ TxnRollback
                /\ pc' = "done"
                /\ UNCHANGED outside
           ELSE IF toposolids = {} \/ ~enough
           THEN /\ pc' = "commit"
                /\ UNCHANGED <<txn, modified, outside>>
           ELSE /\ DocChange("Create")
                /\ pc' = "ask"
                /\ UNCHANGED txn
    /\ UNCHANGED <<committed, notices, collected, changed>>

\* forms.alert("Do you want to delete the original Toposolids?", options=["Yes", "No"])
MERGE_AskDelete ==
    /\ Running(MERGE)
    /\ pc = "ask"
    /\ \E answer \in {"Yes", "No", "None"} :
        /\ DialogClosed("Do you want to delete the original Toposolids?", answer = "Yes")
        /\ changed' = IF answer = "Yes" THEN picked ELSE {}
        /\ IF answer = "Yes" THEN DocChange("Delete") ELSE UNCHANGED <<modified, outside>>
    /\ pc' = "commit"
    /\ UNCHANGED <<txn, committed, notices, collected, picked>>

MERGE_Commit ==
    /\ Running(MERGE)
    /\ CommitStep("commit", "")

\* --- Add Size ---

\* newAlert('Should elements in Groups be excluded?'): Cancel ends the script
SIZE_Ask ==
    /\ Running(SIZE)
    /\ pc = "start"
    /\ \E res \in {"Yes", "No", "Cancel"} :
        /\ DialogClosed("Exclude elements in Groups?", res # "Cancel")
        /\ IF res = "Cancel"
           THEN /\ EndStep("")
                /\ UNCHANGED picked
           ELSE /\ picked' = IF res = "Yes" THEN collected \ GroupedTargets ELSE collected
                /\ TxnStart("Add COBie.NominalSize values from elements")
                /\ pc' = "set"
                /\ UNCHANGED <<committed, outside, notices>>
    /\ UNCHANGED <<collected, changed>>

\* the three parameters are set on the types that have them
SIZE_Set ==
    /\ Running(SIZE)
    /\ \E with_params \in SUBSET picked :
        ChangeStep("set", "Set", with_params, "commit")

SIZE_Commit ==
    /\ Running(SIZE)
    /\ CommitStep("commit", "")

\* --- Delete Legends and Delete Schedules ---

\* main() up to the transaction: the question about an empty selection, the
\* list, and the confirmation
ListAndConfirm(list, question, name, refusal) ==
    /\ pc = "start"
    /\ \E preselected \in BOOLEAN, select_all \in BOOLEAN,
          selected \in SUBSET collected, confirmation \in {"Yes", "No", "None"} :
        IF (~preselected /\ ~select_all) \/ collected = {}
        THEN /\ EndStep("")
             /\ UNCHANGED <<shown, chosen, picked>>
        ELSE /\ picked' = selected
             /\ shown' = shown \cup (IF selected = {} THEN {list} ELSE {list, question})
             /\ chosen' = chosen \cup (IF selected = {} THEN {}
                                       ELSE IF confirmation = "Yes" THEN {list, question}
                                       ELSE {list})
             /\ IF selected # {} /\ confirmation = "Yes"
                THEN /\ TxnStart(name)
                     /\ pc' = "delete"
                     /\ UNCHANGED <<committed, outside, notices>>
                ELSE EndStep(IF selected # {} THEN refusal ELSE "")
    /\ UNCHANGED <<collected, changed>>

LEGENDS_Select ==
    /\ Running(LEGENDS)
    /\ ListAndConfirm("Select Legends to Delete", "You are about to delete legends",
                      "Delete Selected Legends", "")

\* revit.doc.Delete(legend_info.item['legend'].Id): the list hands back either
\* the list items or the dictionaries they wrap, and a dictionary has no 'item'
LEGENDS_Delete ==
    /\ Running(LEGENDS)
    /\ \E unwrapped \in BOOLEAN :
        IF unwrapped
        THEN RollbackStep("delete")
        ELSE ChangeStep("delete", "Delete", picked, "commit")

LEGENDS_Commit ==
    /\ Running(LEGENDS)
    /\ CommitStep("commit", "legends deleted successfully")

SCHEDULES_Select ==
    /\ Running(SCHEDULES)
    /\ ListAndConfirm("Select Schedules to Delete", "You are about to delete schedules",
                      "Delete Selected Schedules", "Schedule deletion canceled.")

SCHEDULES_Delete ==
    /\ Running(SCHEDULES)
    /\ ChangeStep("delete", "Delete", picked, "commit")

SCHEDULES_Commit ==
    /\ Running(SCHEDULES)
    /\ CommitStep("commit", "schedules deleted successfully")

\* --- Remove Unused Filters ---

\* get_all_views_and_templates: the list of views and view templates
FILTERS_Select ==
    /\ Running(FILTERS)
    /\ pc = "start"
    /\ \E returned_views \in SUBSET collected :
        /\ DialogClosed("Select which to clean from unused filters.", returned_views # {})
        /\ picked' = returned_views
        /\ IF returned_views # {}
           THEN /\ TxnStart("Remove unused filters")
                /\ pc' = "remove"
                /\ UNCHANGED <<committed, outside, notices>>
           ELSE EndStep("")
    /\ UNCHANGED <<collected, changed>>

\* view.RemoveFilter for the visible filters without overrides
FILTERS_Remove ==
    /\ Running(FILTERS)
    /\ \E cleaned \in SUBSET picked :
        ChangeStep("remove", "RemoveFilter", cleaned, "commit")

FILTERS_Commit ==
    /\ Running(FILTERS)
    /\ CommitStep("commit", "")

\* --- Workset Views ---

WV_Others == <<appVars, iiVars, cadVars, dvVars, dsVars, rvtVars, simpleVars, countVars, logVars>>

\* the names of the worksets of the documents
WorksetNames == {"Workset1", "Arch", "Struct"}

\* an old 3D view: its name starts with "A-" and it is no workset view
OldView == "A-Old"

\* view_name.startswith("A-") or view_name.startswith("Z-")
StartsWithAOrZ(view_name) == view_name = OldView

\* the names the host gives to the views made by DB.View3D.CreateIsometric
DefaultNames == <<"3D View 1", "3D View 2", "3D View 3">>

WV_Init ==
    /\ script = WV
    /\ HostInit
    /\ Log_Idle
    /\ Count_Idle
    /\ Simple_Idle
    /\ RVT_Idle
    /\ App_Idle
    /\ II_Idle
    /\ CAD_Idle
    /\ DV_Idle
    /\ DS_Idle
    /\ worksets_collection \in SUBSET WorksetNames \ {{}}
    /\ views3D \in SUBSET (WorksetNames \cup {OldView})
    /\ refused_names \in SUBSET (worksets_collection \ views3D)
    /\ worksetsDict = {}
    /\ existingWorkset3DViews = {}
    /\ return_viewTemplate = "None"
    /\ new3DViewsNames = <<>>
    /\ allViews = {}
    /\ views_created = FALSE
    /\ visible_worksets = <<>>

\* lines 74-179: the check for worksets, the views found for worksets, and the
\* list of 3D view templates with '<None>'
WV_Select ==
    /\ script = WV /\ UNCHANGED script /\ UNCHANGED WV_Others
    /\ pc = "start"
    /\ IF worksets_collection = {"Workset1"}
       THEN /\ EndStep("No Worksets found in the project.")
            /\ UNCHANGED <<shown, chosen, worksetsDict, existingWorkset3DViews, return_viewTemplate>>
       ELSE /\ worksetsDict' = worksets_collection \ views3D
            /\ existingWorkset3DViews' = worksets_collection \cap views3D
            /\ \E template \in {"None", "<None>", "template"} :
                /\ return_viewTemplate' = template
                /\ DialogClosed("Select a View Template to use for Workset 3D views",
                                template # "None")
                /\ IF template # "None"
                   THEN /\ TxnStart("Create Views for each Workset")
                        /\ pc' = "create"
                        /\ UNCHANGED <<committed, outside, notices>>
                   ELSE EndStep("")
    /\ UNCHANGED <<worksets_collection, views3D, refused_names, new3DViewsNames,
                   allViews, views_created, visible_worksets>>

\* lines 111-117: one view for every name of worksetsDict; "try: view.Name =
\* worksetName / except: pass" leaves the name of the host when it is refused
RECURSIVE CreateViews(_, _)
CreateViews(names, n) ==
    IF names = {} THEN <<>>
    ELSE LET worksetName == CHOOSE name \in names : TRUE
             view_name == IF worksetName \in refused_names THEN DefaultNames[n] ELSE worksetName
         IN <<view_name>> \o CreateViews(names \ {worksetName}, n + 1)

\* lines 251-257: in every view the workset of the same name is visible and the
\* others are hidden
Visibilities(all_views) ==
    [v \in all_views |-> {workset \in worksets_collection : workset = v}]

\* lines 180-263: the body of the transaction
WV_Create ==
    /\ script = WV /\ UNCHANGED script /\ UNCHANGED WV_Others
    /\ pc = "create"
    /\ \E htl_controlled \in BOOLEAN, delete_old \in {"Yes", "No", "None"},
          worksetsNonControlled \in BOOLEAN, uncheck \in {"Yes", "Cancel & Exit", "None"},
          assign_default \in BOOLEAN :
        LET named == return_viewTemplate # "<None>"
            old_views == IF named /\ htl_controlled
                               THEN {v \in views3D \ existingWorkset3DViews : StartsWithAOrZ(v)}
                               ELSE {}
            deleted_old == IF delete_old = "Yes" THEN old_views ELSE {}
            through_template == named \/ assign_default
            viewTemplateApplied == worksetsNonControlled \/ uncheck = "Yes"
            created == ~through_template \/ viewTemplateApplied
            asked_delete == old_views # {}
            asked_uncheck == through_template /\ ~worksetsNonControlled
            names == IF created THEN CreateViews(worksetsDict, 1) ELSE <<>>
            new3DViews == {names[i] : i \in DOMAIN names}
        IN  /\ new3DViewsNames' = names
            /\ views_created' = created
            /\ allViews' = IF created THEN new3DViews \cup existingWorkset3DViews ELSE {}
            /\ views3D' = (views3D \ deleted_old) \cup new3DViews
            /\ visible_worksets' = Visibilities(allViews')
            /\ shown' = shown \cup (IF asked_delete THEN {"Old workset views will be deleted"} ELSE {})
                              \cup (IF asked_uncheck THEN {"Would you like to uncheck it?"} ELSE {})
            /\ chosen' = chosen \cup (IF asked_delete /\ delete_old = "Yes"
                                      THEN {"Old workset views will be deleted"} ELSE {})
                                \cup (IF asked_uncheck /\ uncheck = "Yes"
                                      THEN {"Would you like to uncheck it?"} ELSE {})
            /\ IF deleted_old # {} \/ created
               THEN DocChange("CreateIsometric")
               ELSE UNCHANGED <<modified, outside>>
            /\ IF created THEN UNCHANGED notices ELSE Notice("No Workset Views were created.")
    /\ pc' = "commit"
    /\ UNCHANGED <<txn, committed>>
    /\ UNCHANGED <<worksets_collection, refused_names, worksetsDict,
                   existingWorkset3DViews, return_viewTemplate>>

\* the with-block ends; lines 265-279: the final message
WV_Commit ==
    /\ script = WV /\ UNCHANGED script /\ UNCHANGED WV_Others
    /\ pc = "commit"
    /\ TxnCommit
    /\ IF new3DViewsNames # <<>> \/ existingWorkset3DViews # {}
       THEN Notice("New 3D Workset Views")
       ELSE UNCHANGED notices
    /\ pc' = "done"
    /\ UNCHANGED <<outside, shown, chosen>>
    /\ UNCHANGED wvVars

WV_Next ==
    \/ WV_Select
    \/ WV_Create
    \/ WV_Commit

SpecWV == WV_Init /\ [][WV_Next]_vars

\* C11: after a run of Workset Views in which views were created, every user
\* workset has a 3D view that is no template and has the name of the workset,
\* and one new view was created for each workset that had none.
C11_EveryWorksetHasItsView ==
    (script = WV /\ pc = "done" /\ views_created
        /\ "Create Views for each Workset" \in committed)
    => /\ \A workset \in worksets_collection : workset \in views3D
       /\ Len(new3DViewsNames) = Cardinality(worksetsDict)

\* --- Project Parameters Cleaner and Shared Parameters Cleaner ---

\* the two lists: parameters to check, then parameters to delete
ParametersSelect(check_list, delete_list) ==
    /\ pc = "start"
    /\ IF collected = {}
       THEN /\ EndStep("No Project Parameters in the model.")
            /\ UNCHANGED <<shown, chosen, picked>>
       ELSE \E return_options \in SUBSET collected :
            \E delete_options \in SUBSET return_options :
                /\ picked' = delete_options
                /\ shown' = shown \cup (IF return_options = {} THEN {check_list}
                                        ELSE {check_list, delete_list})
                /\ chosen' = chosen \cup (IF return_options = {} THEN {}
                                          ELSE IF delete_options = {} THEN {check_list}
                                          ELSE {check_list, delete_list})
                /\ IF delete_options # {}
                   THEN /\ TxnStart("Purge Unused Project Parameters")
                        /\ pc' = "delete"
                        /\ UNCHANGED <<committed, outside, notices>>
                   ELSE EndStep("Nothing selected.")
    /\ UNCHANGED <<collected, changed>>

\* doc.Delete in a try block for every selected parameter; a deletion that
\* raises is logged and the loop goes on
ParametersDelete ==
    \E failed \in SUBSET picked :
        /\ ChangeStep("delete", "Delete", picked \ failed, "commit")
        /\ logged' = failed

\* the with-block ends; DELETED[0] raises when nothing was deleted
ParametersCommit ==
    CommitStep("commit", IF changed = {} THEN "" ELSE "deleted from the model")

PP_Select ==
    /\ Running(PP)
    /\ ParametersSelect("Select Project Parameters to check if they are in use.",
                        "Parameters sorted by usage. Select which to delete.")

PP_Delete ==
    /\ RunningLoop(PP)
    /\ ParametersDelete

PP_Commit ==
    /\ Running(PP)
    /\ ParametersCommit

SP_Select ==
    /\ Running(SP)
    /\ ParametersSelect("Select Shared Parameters to check if they are in use.",
                        "Parameters sorted by usage. Select which to delete.")

SP_Delete ==
    /\ RunningLoop(SP)
    /\ ParametersDelete

SP_Commit ==
    /\ Running(SP)
    /\ ParametersCommit

\* --- Project and Shared Parameters Cleaner: checkIfInUse ---

Count_Others == <<iiVars, cadVars, dvVars, dsVars, rvtVars, simpleVars, wvVars, logVars>>

\* the number of elements of the bound categories
MaxElements == 3

\* what an element of a bound category holds for the parameter: no parameter
\* of that name, a parameter of that name with another id, a parameter without
\* a value, or a value; "raises" is a value whose reading raises an exception
ParameterStates == {"absent", "foreign", "no value", "empty string", "text",
                    "zero", "number", "yes/no", "id", "raises"}

\* GetParameters(pp.Name) with par.Id == pp.pp_id, get_Parameter(sp.guid)
Found(par) == par \notin {"absent", "foreign"}

\* par.HasValue
HasValue(par) == par # "no value"

\* par.StorageType
StorageType(par) ==
    CASE par \in {"empty string", "text"} -> "String"
      [] par \in {"zero", "number", "yes/no"} -> "Integer"
      [] par = "id" -> "ElementId"
      [] OTHER -> "None"

\* the data type or the parameter type is Yes/No, by version
IsYesNo(par) ==
    IF ver >= 2023 THEN par = "yes/no" ELSE par = "yes/no"

\* value = par.AsString() / AsInteger() / AsElementId(); a string is kept by
\* its length
ValueOf(par) ==
    CASE StorageType(par) = "String" ->
            [type |-> "String", v |-> IF par = "text" THEN 4 ELSE 0]
      [] StorageType(par) = "Integer" ->
            [type |-> "Number", v |-> IF par = "zero" THEN 0 ELSE 5]
      [] StorageType(par) = "ElementId" -> [type |-> "ElementId", v |-> 1]
      [] OTHER -> [type |-> "None", v |-> 0]

\* a variant of Truthy for which every value counts
TruthyAlways(value) == value.type # "None"

\* "if value": None, the empty string and 0 are false, an object is true
Truthy(value) ==
    CASE value.type = "None" -> FALSE
      [] value.type = "String" -> value.v > 0
      [] value.type = "Number" -> value.v # 0
      [] OTHER -> TRUE

\* "value == 0"
EqualsZero(value) == value.type = "Number" /\ value.v = 0

\* the inner try block for a parameter that has a value: what it adds to count
CountedValue(par) ==
    IF par = "raises" THEN 1
    ELSE IF StorageType(par) = "Integer" /\ IsYesNo(par) THEN 1
    ELSE IF Truthy(ValueOf(par)) \/ EqualsZero(ValueOf(par)) THEN 1
    ELSE 0

\* one iteration of "for element in elements"; in the Shared Parameters
\* Cleaner par is None for an element without the parameter, par.HasValue
\* raises and the outer except branch counts the element
CountedElement(par, cleaner) ==
    IF ~Found(par) THEN (IF cleaner = SP THEN 1 ELSE 0)
    ELSE IF ~HasValue(par) THEN 0
    ELSE CountedValue(par)

\* checkIfInUse(elements, pp)
RECURSIVE checkIfInUse(_, _)
checkIfInUse(all_elements, cleaner) ==
    IF all_elements = <<>> THEN 0
    ELSE CountedElement(Head(all_elements), cleaner)
            + checkIfInUse(Tail(all_elements), cleaner)

Count_Init ==
    /\ script \in {PP, SP}
    /\ pc = "count"
    /\ txn = "none"
    /\ modified = FALSE
    /\ committed = {}
    /\ outside = {}
    /\ shown = {}
    /\ chosen = {}
    /\ notices = {}
    /\ ver \in Versions
    /\ IsWorkshared = FALSE
    /\ CanEnableWorksharing = FALSE
    /\ Log_Idle
    /\ WV_Idle
    /\ Simple_Idle
    /\ RVT_Idle
    /\ II_Idle
    /\ CAD_Idle
    /\ DV_Idle
    /\ DS_Idle
    /\ allElementsOfAllCategories \in UNION {[1..n -> ParameterStates] : n \in 0..MaxElements}
    /\ inUse = IF script = PP THEN 1 ELSE 0

\* pp.inUse = checkIfInUse(allElementsOfAllCategories, pp)
Count_Check ==
    /\ script \in {PP, SP}
    /\ pc = "count"
    /\ inUse' = checkIfInUse(allElementsOfAllCategories, script)
    /\ IF script = SP /\ \E i \in DOMAIN allElementsOfAllCategories :
                            ~Found(allElementsOfAllCategories[i])
       THEN Notice("Error checking parameter HasValue")
       ELSE UNCHANGED notices
    /\ pc' = "counted"
    /\ UNCHANGED <<script, txn, modified, committed, outside, shown, chosen>>
    /\ UNCHANGED <<appVars, allElementsOfAllCategories>>
    /\ UNCHANGED Count_Others

Count_Next ==
    \/ Count_Check

SpecCount == Count_Init /\ [][Count_Next]_vars

\* the elements on which the parameter has a value that is not empty
NonEmpty(par) == par \in {"text", "zero", "number", "yes/no", "id"}

\* the elements for which reading the parameter raised an error
Raised(par, cleaner) == par = "raises" \/ (cleaner = SP /\ ~Found(par))

\* C12 as stated: the count shown for a parameter is the number of elements of
\* the bound categories on which the parameter has a non-empty value.
C12_CountIsNonEmptyValues ==
    pc = "counted" =>
        inUse = Cardinality({i \in DOMAIN allElementsOfAllCategories :
                                NonEmpty(allElementsOfAllCategories[i])})

\* C12, amended: the count is the number of elements with a non-empty value
\* (an empty string is not counted, 0 and a set Yes/No value are, each element
\* once) plus the number of elements for which reading the parameter raised an
\* error, which in the Shared Parameters Cleaner includes the elements that do
\* not carry the parameter.
C12_CountIsNonEmptyValuesAndErrors ==
    pc = "counted" =>
        inUse = Cardinality({i \in DOMAIN allElementsOfAllCategories :
                                \/ NonEmpty(allElementsOfAllCategories[i])
                                \/ Raised(allElementsOfAllCategories[i], script)})

C12_Witness ==
    /\ pc = "counted"
    /\ allElementsOfAllCategories = <<"empty string", "zero", "yes/no">>
    /\ inUse = 2

Simple_Next ==
    \/ PIN_Start
    \/ PIN_Pin
    \/ PIN_Commit
    \/ TAG_Start
    \/ TAG_Copy
    \/ TAG_Commit
    \/ PURGE_Ask
    \/ PURGE_Delete
    \/ PURGE_Commit
    \/ SURFACE_Start
    \/ SURFACE_Pick
    \/ SURFACE_Commit
    \/ MERGE_Start
    \/ MERGE_Pick
    \/ MERGE_AskDelete
    \/ MERGE_Commit
    \/ SIZE_Ask
    \/ SIZE_Set
    \/ SIZE_Commit
    \/ LEGENDS_Select
    \/ LEGENDS_Delete
    \/ LEGENDS_Commit
    \/ SCHEDULES_Select
    \/ SCHEDULES_Delete
    \/ SCHEDULES_Commit
    \/ FILTERS_Select
    \/ FILTERS_Remove
    \/ FILTERS_Commit
    \/ PP_Select
    \/ PP_Delete
    \/ PP_Commit
    \/ SP_Select
    \/ SP_Delete
    \/ SP_Commit

\* ------------------------------------------------------------------------
\* Any one of the scripts is run

Init ==
    \/ WV_Init
    \/ II_Init
    \/ CAD_Init
    \/ DV_Init
    \/ DS_Init
    \/ RVT_Init
    \/ Simple_Init

Next ==
    \/ WV_Next
    \/ II_Next
    \/ CAD_Next
    \/ DV_Next
    \/ DS_Next
    \/ RVT_Next
    \/ Simple_Next

Spec == Init /\ [][Next]_vars

\* ------------------------------------------------------------------------
\* Properties of all scripts

\* the scripts that commit a change without asking: PinLinksAndGrids and
\* Id TagNumber show no dialog, Delete Views deletes the views selected in
\* the host before the script was started
Unasked == {PIN, TAG, DV}

\* C1 as stated: no transaction that changed the document is committed unless
\* the user has answered a dialog of the run that confirms or selects.
C1_CommitOnlyAfterAnswer ==
    committed # {} => chosen # {}

\* C1, amended: in every script but PinLinksAndGrids, Id TagNumber and Delete
\* Views a transaction that changed the document is committed only after the
\* user answered a confirming or selecting dialog; in Identical Instances the
\* option window was at least shown, a run going on when it is closed without
\* a choice.
C1_CommitOnlyAfterAnswerUnlessUnasked ==
    committed # {} =>
        \/ script \in Unasked
        \/ chosen # {}
        \/ script = II /\ "DeleteBetweenOptionSets" \in shown

C1_Witness ==
    /\ script = PURGE
    /\ "Purge all images" \in committed
    /\ "Purge all images?" \in chosen
    /\ changed # {}

\* C2 as stated: no call that changes the document is made while no
\* transaction of the script is open.
C2_NoChangeOutsideTransaction ==
    outside = {}

\* C2, amended: every call that changes the document is made inside an open
\* transaction, except EnableWorksharing, which RVT Link Worksets calls with
\* no transaction open.
C2_OnlyWorksharingOutsideTransaction ==
    /\ outside \subseteq {"EnableWorksharing"}
    /\ modified => txn # "none"
    /\ script # RVT => outside = {}

C2_Witness ==
    /\ script = RVT
    /\ "EnableWorksharing" \in outside
    /\ txn # "none"
    /\ modified

\* ------------------------------------------------------------------------
\* Properties of the Parameters Cleaners

\* C13: when the deletion of a selected parameter has raised an error, the
\* error is logged, every other selected parameter has been processed (deleted
\* or logged), and the run ends with the summary alert, also when every
\* deletion has failed.
C13_DeletionErrorsAreSurvived ==
    (script \in {PP, SP} /\ pc = "done" /\ logged # {})
    => /\ logged \cup changed = picked
       /\ logged \cap changed = {}
       /\ "deleted from the model" \in notices

\* ------------------------------------------------------------------------
\* Properties of Identical Instances

NoRepeat(l) == \A i, j \in 1..Len(l) : i # j => l[i] # l[j]

\* C3: once the warnings are grouped, the lists of grouped_warnings_ids are the
\* equivalence classes of the failing elements: no id twice in a list, no id in
\* two lists, and two ids share a list exactly when warnings chain them.
C3_ListsAreClasses ==
    (script = II /\ pc = "lists") =>
        /\ \A i \in 1..Len(grouped_warnings_ids) : NoRepeat(grouped_warnings_ids[i])
        /\ \A i, j \in 1..Len(grouped_warnings_ids) :
              i # j => ListSet(grouped_warnings_ids[i]) \cap ListSet(grouped_warnings_ids[j]) = {}
        /\ {ListSet(grouped_warnings_ids[i]) : i \in 1..Len(grouped_warnings_ids)} = classes

\* C4: of every set of elements the warnings report as identical to each other,
\* at least one element is not in elements_ids_to_delete.
C4_OneCopyStays ==
    script = II => \A c \in classes : c \ elements_ids_to_delete # {}

\* an element has a dependent element of a category that counts
HasCountedDependent(e) == e.dependents \ (OmittedCategories \cup {""}) # {}

\* C5: no element that is in a group, hosted, nested or that has a counted
\* dependent element is ever in elements_ids_to_delete.
C5_OnlyFreeElementsDeleted ==
    script = II =>
        \A id \in elements_ids_to_delete :
            /\ ~elements[id].InGroup
            /\ ~elements[id].Host
            /\ ~elements[id].SuperComponent
            /\ ~HasCountedDependent(elements[id])

\* C5 witness: duplicates of a grouped, of a hosted and of a tagged element were
\* deleted while those elements stayed.
C5_Witness ==
    /\ script = II /\ pc = "done" /\ DELETED # {}
    /\ \E c \in classes :
        /\ c \cap DELETED # {}
        /\ \E id \in c : elements[id].InGroup \/ elements[id].Host \/ HasCountedDependent(elements[id])

====
